---- MODULE Spec2Model ----
(***************************************************************************)
(* A model of libfastjson's value core (json_object.c,                     *)
(* json_object_iterator.c): the reference-counted Value, the per-value     *)
(* serializer hook with its user data, the object's ordered table and the  *)
(* print-buffer serializers.                                               *)
(*                                                                         *)
(* A byte is an integer 0..255 and a text is a sequence of bytes.  A Value *)
(* handle is an index into `heap`; NULL is the null handle.  The C         *)
(* functions are operators from a machine record M (heap, allocated        *)
(* blocks, call log, ghost counters, return value) to the machine after    *)
(* the call; the actions apply them to the state on behalf of a caller     *)
(* that follows the ownership rules of the API (it releases only           *)
(* references it holds).                                                   *)
(***************************************************************************)
EXTENDS Integers, Sequences, FiniteSets, TLC

VARIABLES
    heap,     \* handle -> struct fjson_object
    mem,      \* the set of heap blocks currently allocated
    held,     \* handle -> number of references the caller owns
    udel,     \* installed user_data/user_delete pair -> times user_delete ran
    ndel,     \* handle -> times fjson_object_generic_delete ran on it
    nextTok,  \* the next user-data pair (installation) number
    nextKey,  \* the next key instance number
    events,   \* the calls made inside the last API call, in order
    ret,      \* the last API call and what it returned
    note,     \* ghost: per handle, what the history of the Value was
    thr,      \* thread -> where it is in its get ... put sequence
    oob       \* what a read in front of the needsEscape table finds

vars ==
    <<heap, mem, held, udel, ndel, nextTok, nextKey, events, ret, note, thr, oob>>

----------------------------------------------------------------------------
(* Bounds of the model *)

\* number of Values a run constructs
MaxObj == 3
\* number of fjson_object_get calls a run makes
MaxRef == 1
\* number of user_data/user_delete pairs a run installs
MaxInstalls == 2
\* number of key instances (strdup'ed or constant) a run creates
MaxKeys == 2
\* number of threads that share a Value with the thread that made it
MaxThreads == 2

----------------------------------------------------------------------------
(* Bytes and texts *)

AsciiTable ==
    << " ", "!", "\"", "#", "$", "%", "&", "'", "(", ")", "*", "+", ",", "-", ".", "/",
       "0", "1", "2", "3", "4", "5", "6", "7", "8", "9", ":", ";", "<", "=", ">", "?",
       "@", "A", "B", "C", "D", "E", "F", "G", "H", "I", "J", "K", "L", "M", "N", "O",
       "P", "Q", "R", "S", "T", "U", "V", "W", "X", "Y", "Z", "[", "\\", "]", "^", "_",
       "<grave>", "a", "b", "c", "d", "e", "f", "g", "h", "i", "j", "k", "l", "m", "n", "o",
       "p", "q", "r", "s", "t", "u", "v", "w", "x", "y", "z", "{", "|", "}", "~" >>

\* the byte of a character
Ord(c) ==
    CASE c = "\n" -> 10
      [] c = "\t" -> 9
      [] c = "\r" -> 13
      [] c = "\f" -> 12
      [] OTHER -> 31 + CHOOSE i \in 1..Len(AsciiTable) : AsciiTable[i] = c

\* the text of a sequence of characters
Str(s) == [i \in 1..Len(s) |-> Ord(s[i])]

\* n copies of byte c
Rep(c, n) == [i \in 1..n |-> c]

\* the decimal digits (0..9) of a natural number
RECURSIVE Digits(_)
Digits(n) == IF n < 10 THEN <<n>> ELSE Digits(n \div 10) \o <<n % 10>>

\* An int64_t is its sign and the decimal digits of its magnitude, without
\* leading zeros: the integers of the checker are narrower than 64 bits.
\* Int64(n) is the int64_t of an int32_t n above INT32_MIN.
Int64(n) == [neg |-> n < 0, mag |-> Digits(IF n < 0 THEN 0 - n ELSE n)]

\* a < b for magnitudes
MagLess(a, b) ==
    \/ Len(a) < Len(b)
    \/ /\ Len(a) = Len(b)
       /\ \E i \in 1..Len(a) : a[i] < b[i] /\ \A j \in 1..(i - 1) : a[j] = b[j]

\* a < b and a <= b for int64_t
Less(a, b) ==
    IF a.neg # b.neg THEN a.neg
    ELSE IF a.neg THEN MagLess(b.mag, a.mag) ELSE MagLess(a.mag, b.mag)

Leq(a, b) == a = b \/ Less(a, b)

\* the limits of int32_t and int64_t
INT32_MIN == [neg |-> TRUE, mag |-> <<2, 1, 4, 7, 4, 8, 3, 6, 4, 8>>]
INT32_MAX == [neg |-> FALSE, mag |-> <<2, 1, 4, 7, 4, 8, 3, 6, 4, 7>>]
INT64_MIN ==
    [neg |-> TRUE,
     mag |-> <<9, 2, 2, 3, 3, 7, 2, 0, 3, 6, 8, 5, 4, 7, 7, 5, 8, 0, 8>>]
INT64_MAX ==
    [neg |-> FALSE,
     mag |-> <<9, 2, 2, 3, 3, 7, 2, 0, 3, 6, 8, 5, 4, 7, 7, 5, 8, 0, 7>>]

\* snprintf("%" PRId64, n)
PRId64(n) ==
    (IF n.neg THEN <<45>> ELSE <<>>) \o [i \in 1..Len(n.mag) |-> 48 + n.mag[i]]

\* the C string at the start of a buffer: its bytes up to the first NUL
RECURSIVE CStr(_)
CStr(buf) ==
    IF buf = <<>> \/ Head(buf) = 0 THEN <<>> ELSE <<Head(buf)>> \o CStr(Tail(buf))

\* strlen
strlen(buf) == Len(CStr(buf))

----------------------------------------------------------------------------
(* printbuf: the growable print buffer; a buffer is its bytes up to bpos *)

printbuf_new == <<>>
printbuf_reset(pb) == <<>>
printbuf_memappend_no_nul(pb, buf, size) == pb \o SubSeq(buf, 1, size)
printbuf_memappend_char(pb, c) == Append(pb, c)
\* printbuf_memset(pb, -1, c, n): n bytes c at the end
printbuf_memset(pb, c, n) == pb \o Rep(c, n)
\* sprintbuf(pb, fmt, ...) with the formatted text given
sprintbuf(pb, text) == pb \o text

----------------------------------------------------------------------------
(* The Value *)

NULL == 0

Handles == 1..MaxObj

NoUserdata == [tok |-> 0, text |-> <<>>]
\* A double is its class (finite, nan, inf, -inf) and, if finite, its
\* "%.17g" text (g17), whether modf finds no fractional part (integral) and
\* its value truncated toward zero (trunc); source is the text it was
\* parsed from, <<>> for NULL.  NoDouble is 0.0.
NoDouble ==
    [cls |-> "finite", g17 |-> <<48>>, integral |-> TRUE, trunc |-> Int64(0),
     source |-> <<>>]
NoPb == [alloc |-> FALSE, buf |-> <<>>]

\* the thread that makes the Values, and all threads
Caller == 0
Threads == 0..MaxThreads

\* before the Value is shared: the caller holds the reference its
\* constructor call gave it, the others have not touched the Value
NoThreads == [t \in Threads |-> IF t = Caller THEN "holding" ELSE "idle"]

\* memory before fjson_object_new's calloc
Unallocated ==
    [st |-> "unalloc", o_type |-> "null", ref_count |-> 0,
     delete |-> "none", to_json_string |-> "NULL",
     userdata |-> NoUserdata, user_delete |-> "NULL", pb |-> NoPb,
     c_boolean |-> 0, c_int64 |-> Int64(0), c_double |-> NoDouble,
     c_string |-> [len |-> 0, data |-> <<0>>],
     c_object |-> <<>>, c_array |-> <<>>, has_list |-> FALSE]

\* the machine the C functions run on: M.fail is the number of the
\* allocation of the call that fails (0: none does), M.allocs the number of
\* allocations the call has asked for
Cur ==
    [heap |-> heap, mem |-> mem, udel |-> udel, ndel |-> ndel,
     nextTok |-> nextTok, nextKey |-> nextKey, events |-> <<>>, rv |-> NULL,
     pick |-> 1, thr |-> thr, cast |-> "indefinite",
     fail |-> 0, allocs |-> 0, errno |-> 0]

Live(h, jso) == jso # NULL /\ h[jso].st = "live"

\* the next handle calloc returns; handles are not reused
NewHandle(h) == 1 + Cardinality({i \in Handles : h[i].st # "unalloc"})

LEN_DIRECT_STRING_DATA == 15

\* one entry of the call log
Ev(e, id, x) == [e |-> e, id |-> id, x |-> x]

Log(M, e, id, x) == [M EXCEPT !.events = Append(@, Ev(e, id, x))]

\* the machine with heap h, for the calls that only read it
On(h) == [heap |-> h, events |-> <<>>, rv |-> NULL]

\* F of v, for a result v that the rest F of a function reads more than
\* once: v is computed first, and once
With(v, F(_)) == CHOOSE r \in {F(x) : x \in {v}} : TRUE

\* jso->... where jso is a null pointer: the load or store at an offset of
\* address 0 faults, the process gets SIGSEGV and the call does not return
SIGSEGV(M) == Log([M EXCEPT !.rv = NULL], "SIGSEGV", NULL, 0)

----------------------------------------------------------------------------
(* Reference counting, construction and destruction *)

RECURSIVE fjson_object_put(_, _)
RECURSIVE lh_table_free_entries(_, _)
RECURSIVE array_list_free_entries(_, _)

\* memory after free(jso): nothing of the Value may be read any more
Freed == [Unallocated EXCEPT !.st = "freed"]

\* a fjson_object_get that would hand out the pointer without counting it
get_no_count(M, jso) == [M EXCEPT !.rv = jso]

fjson_object_get(M, jso) ==
    IF jso = NULL THEN [M EXCEPT !.rv = jso]
    ELSE [M EXCEPT !.heap[jso].ref_count = @ + 1, !.rv = jso]

\* printbuf_free(jso->_pb); free(jso)
fjson_object_generic_delete(M, jso) ==
    LET M1 == Log(M, "generic_delete", jso, 0)
    IN [M1 EXCEPT !.mem = @ \ {<<"pb", jso>>, <<"jso", jso>>},
                  !.ndel[jso] = @ + 1,
                  !.heap[jso] = Freed]

\* jso->_user_delete(jso, jso->_userdata), for the two finalizers of the
\* repository: the tests' freeit (frees nothing) and
\* fjson_object_free_userdata (free(userdata))
call_user_delete(M, jso) ==
    LET ud == M.heap[jso].userdata
        fn == M.heap[jso].user_delete
        M1 == Log(M, "user_delete", jso, ud.tok)
        M2 == IF ud.tok \in DOMAIN M1.udel
              THEN [M1 EXCEPT !.udel[ud.tok] = @ + 1] ELSE M1
    IN IF fn = "fjson_object_free_userdata"
       THEN [M2 EXCEPT !.mem = @ \ {<<"ds", ud.tok>>}]
       ELSE M2

\* an entry destructor that would free the key and leave the value alone
lh_entry_free_key_only(M, ent) ==
    IF ~ent.k_is_constant
    THEN [M EXCEPT !.mem = @ \ {<<"key", ent.kinst>>}] ELSE M

fjson_object_lh_entry_free(M, ent) ==
    LET M1 == IF ~ent.k_is_constant
              THEN [M EXCEPT !.mem = @ \ {<<"key", ent.kinst>>}] ELSE M
    IN fjson_object_put(M1, ent.v)

\* lh_table_free: free_fn on every entry from the head, then the table
lh_table_free_entries(M, ents) ==
    IF ents = <<>> THEN M
    ELSE lh_table_free_entries(fjson_object_lh_entry_free(M, Head(ents)), Tail(ents))

fjson_object_object_delete(M, jso) ==
    LET M0 == Log(M, "object_delete", jso, 0)
        M1 == lh_table_free_entries(M0, M0.heap[jso].c_object)
        M2 == [M1 EXCEPT !.mem = @ \ {<<"table", jso>>}]
    IN fjson_object_generic_delete(M2, jso)

fjson_object_array_entry_free(M, data) == fjson_object_put(M, data)

\* array_list_free: free_fn on every non-null element, then the list
array_list_free_entries(M, elems) ==
    IF elems = <<>> THEN M
    ELSE array_list_free_entries(
             IF Head(elems) # NULL
             THEN fjson_object_array_entry_free(M, Head(elems)) ELSE M,
             Tail(elems))

\* array_list_free reads the list it is given: a null pointer faults
fjson_object_array_delete(M, jso) ==
    LET M0 == Log(M, "array_delete", jso, 0)
        M1 == array_list_free_entries(M0, M0.heap[jso].c_array)
        M2 == [M1 EXCEPT !.mem = @ \ {<<"array", jso>>}]
    IN IF ~M.heap[jso].has_list THEN SIGSEGV(M0)
       ELSE fjson_object_generic_delete(M2, jso)

fjson_object_string_delete(M, jso) ==
    LET M0 == Log(M, "string_delete", jso, 0)
        M1 == IF M0.heap[jso].c_string.len >= LEN_DIRECT_STRING_DATA
              THEN [M0 EXCEPT !.mem = @ \ {<<"str", jso>>}] ELSE M0
    IN fjson_object_generic_delete(M1, jso)

\* jso->_delete(jso)
call_delete(M, jso) ==
    CASE M.heap[jso].delete = "fjson_object_object_delete" ->
             fjson_object_object_delete(M, jso)
      [] M.heap[jso].delete = "fjson_object_array_delete" ->
             fjson_object_array_delete(M, jso)
      [] M.heap[jso].delete = "fjson_object_string_delete" ->
             fjson_object_string_delete(M, jso)
      [] OTHER -> fjson_object_generic_delete(M, jso)

\* a fjson_object_put that would run user_delete after the destructors
put_user_delete_last(M, jso) ==
    IF jso = NULL THEN [M EXCEPT !.rv = 0]
    ELSE LET cnt == M.heap[jso].ref_count - 1
             M1 == [Log(M, "put", jso, cnt) EXCEPT !.heap[jso].ref_count = cnt]
         IN IF cnt > 0 THEN [M1 EXCEPT !.rv = 0]
            ELSE LET M2 == call_delete(M1, jso)
                     M3 == IF M1.heap[jso].user_delete # "NULL"
                           THEN call_user_delete(
                                    [M2 EXCEPT !.heap[jso] = M1.heap[jso]], jso)
                           ELSE M2
                 IN [M3 EXCEPT !.heap[jso] = Freed, !.rv = 1]

\* a fjson_object_put that would run user_delete before it looks at the count
put_eager(M, jso) ==
    IF jso = NULL THEN [M EXCEPT !.rv = 0]
    ELSE LET cnt == M.heap[jso].ref_count - 1
             M1 == [Log(M, "put", jso, cnt) EXCEPT !.heap[jso].ref_count = cnt]
             M2 == IF M1.heap[jso].user_delete # "NULL"
                   THEN call_user_delete(M1, jso) ELSE M1
         IN IF cnt > 0 THEN [M2 EXCEPT !.rv = 0]
            ELSE [call_delete(M2, jso) EXCEPT !.rv = 1]

\* a fjson_object_put that would return 0 from the call that destroys too
put_void(M, jso) ==
    IF jso = NULL THEN [M EXCEPT !.rv = 0]
    ELSE LET cnt == M.heap[jso].ref_count - 1
             M1 == [Log(M, "put", jso, cnt) EXCEPT !.heap[jso].ref_count = cnt]
         IN IF cnt > 0 THEN [M1 EXCEPT !.rv = 0]
            ELSE LET M2 == IF M1.heap[jso].user_delete # "NULL"
                           THEN call_user_delete(M1, jso) ELSE M1
                 IN [call_delete(M2, jso) EXCEPT !.rv = 0]

fjson_object_put(M, jso) ==
    IF jso = NULL THEN [M EXCEPT !.rv = 0]
    ELSE LET cnt == M.heap[jso].ref_count - 1
             M1 == [Log(M, "put", jso, cnt) EXCEPT !.heap[jso].ref_count = cnt]
         IN IF cnt > 0 THEN [M1 EXCEPT !.rv = 0]
            ELSE LET M2 == IF M1.heap[jso].user_delete # "NULL"
                           THEN call_user_delete(M1, jso) ELSE M1
                 IN [call_delete(M2, jso) EXCEPT !.rv = 1]

ENOMEM == 12

\* the next calloc, malloc or strdup of the call returns memory
Granted(M) == M.allocs + 1 # M.fail

\* the allocation was asked for
Asked(M) == [M EXCEPT !.allocs = @ + 1,
                      !.errno = IF Granted(M) THEN @ ELSE ENOMEM]

\* ATOMIC_DEC_AND_FETCH(&jso->_ref_count, ...): the count is decremented and
\* the new count fetched in one step no other thread's step falls into
ATOMIC_DEC_AND_FETCH(M, jso) ==
    LET cnt == M.heap[jso].ref_count - 1
    IN [M EXCEPT !.heap[jso].ref_count = cnt, !.rv = cnt]

\* a decrement that would fetch the new count and not store it
put_count_lost(M, jso) ==
    LET cnt == M.heap[jso].ref_count - 1
    IN [Log(M, "put", jso, cnt) EXCEPT !.rv = cnt]

\* fjson_object_put as far as const int cnt = ATOMIC_DEC_AND_FETCH(...)
put_count(M, jso) ==
    LET M1 == ATOMIC_DEC_AND_FETCH(M, jso)
    IN Log(M1, "put", jso, M1.rv)

\* fjson_object_put from there on
put_rest(M, jso, cnt) ==
    IF cnt > 0 THEN [M EXCEPT !.rv = 0]
    ELSE LET M2 == IF M.heap[jso].user_delete # "NULL"
                   THEN call_user_delete(M, jso) ELSE M
         IN [call_delete(M2, jso) EXCEPT !.rv = 1]

\* calloc, then the header fields
fjson_object_new(M, o_type) ==
    LET jso == NewHandle(M.heap)
    IN IF ~Granted(M) THEN [Asked(M) EXCEPT !.rv = NULL]
       ELSE [Asked(M) EXCEPT
                 !.heap[jso] = [Unallocated EXCEPT !.st = "live",
                                                   !.o_type = o_type,
                                                   !.ref_count = 1,
                                                   !.delete = "fjson_object_generic_delete"],
                 !.mem = @ \cup {<<"jso", jso>>},
                 !.rv = jso]

----------------------------------------------------------------------------
(* The custom serializer *)

\* a table of the default serializers without the one of the strings
default_serializer_no_string(o_type) ==
    CASE o_type = "null" -> "NULL"
      [] o_type = "boolean" -> "fjson_object_boolean_to_json_string"
      [] o_type = "double" -> "fjson_object_double_to_json_string"
      [] o_type = "int" -> "fjson_object_int_to_json_string"
      [] o_type = "object" -> "fjson_object_object_to_json_string"
      [] o_type = "array" -> "fjson_object_array_to_json_string"
      [] o_type = "string" -> "NULL"

DefaultSerializer(o_type) ==
    CASE o_type = "null" -> "NULL"
      [] o_type = "boolean" -> "fjson_object_boolean_to_json_string"
      [] o_type = "double" -> "fjson_object_double_to_json_string"
      [] o_type = "int" -> "fjson_object_int_to_json_string"
      [] o_type = "object" -> "fjson_object_object_to_json_string"
      [] o_type = "array" -> "fjson_object_array_to_json_string"
      [] o_type = "string" -> "fjson_object_string_to_json_string"

\* a fjson_object_set_serializer that would drop the old user data without
\* calling its user_delete
set_serializer_forget(M, jso, to_string_func, userdata, user_delete) ==
    LET M2 == [M EXCEPT !.heap[jso].userdata = NoUserdata,
                        !.heap[jso].user_delete = "NULL"]
    IN IF to_string_func = "NULL"
       THEN [M2 EXCEPT !.heap[jso].to_json_string =
                           DefaultSerializer(M2.heap[jso].o_type)]
       ELSE [M2 EXCEPT !.heap[jso].to_json_string = to_string_func,
                       !.heap[jso].userdata = userdata,
                       !.heap[jso].user_delete = user_delete]

\* a fjson_object_set_serializer that would leave the function in place
\* when it is reset
set_serializer_keep(M, jso, to_string_func, userdata, user_delete) ==
    LET M1 == IF M.heap[jso].user_delete # "NULL"
              THEN call_user_delete(M, jso) ELSE M
        M2 == [M1 EXCEPT !.heap[jso].userdata = NoUserdata,
                         !.heap[jso].user_delete = "NULL"]
    IN IF to_string_func = "NULL"
       THEN M2
       ELSE [M2 EXCEPT !.heap[jso].to_json_string = to_string_func,
                       !.heap[jso].userdata = userdata,
                       !.heap[jso].user_delete = user_delete]

fjson_object_set_serializer(M, jso, to_string_func, userdata, user_delete) ==
    IF jso = NULL THEN SIGSEGV(M) ELSE
    LET M1 == IF M.heap[jso].user_delete # "NULL"
              THEN call_user_delete(M, jso) ELSE M
        M2 == [M1 EXCEPT !.heap[jso].userdata = NoUserdata,
                         !.heap[jso].user_delete = "NULL"]
    IN IF to_string_func = "NULL"
       THEN [M2 EXCEPT !.heap[jso].to_json_string =
                           DefaultSerializer(M2.heap[jso].o_type)]
       ELSE [M2 EXCEPT !.heap[jso].to_json_string = to_string_func,
                       !.heap[jso].userdata = userdata,
                       !.heap[jso].user_delete = user_delete]

----------------------------------------------------------------------------
(* String escaping *)

\* *str, a char, as the int the code uses it as: where char is a signed
\* type the bytes 128..255 are the values -128..-1
signed_char(b) == IF b >= 128 THEN b - 256 ELSE b

\* needsEscape[256]: 1 for the bytes 0..31, '"' (34), '/' (47), '\\' (92).
\* A negative index reads in front of the table: what it finds is not
\* defined by the program (oob).
needsEscape(i) ==
    IF i < 0 THEN oob.needs
    ELSE IF i < 32 \/ i \in {34, 47, 92} THEN 1 ELSE 0

\* fjson_hex_chars[n]; a negative index reads in front of the literal
fjson_hex_chars(n) ==
    IF n < 0 THEN oob.hex
    ELSE Str(<<"0", "1", "2", "3", "4", "5", "6", "7", "8", "9", "a", "b", "c", "d",
               "e", "f", "A", "B", "C", "D", "E", "F">>)[n + 1]

\* the switch of fjson_escape_str on *str = c, a char that needs escaping
escape_one(pb, c) ==
    CASE c = 8 -> printbuf_memappend_no_nul(pb, Str(<<"\\", "b">>), 2)
      [] c = 10 -> printbuf_memappend_no_nul(pb, Str(<<"\\", "n">>), 2)
      [] c = 13 -> printbuf_memappend_no_nul(pb, Str(<<"\\", "r">>), 2)
      [] c = 9 -> printbuf_memappend_no_nul(pb, Str(<<"\\", "t">>), 2)
      [] c = 12 -> printbuf_memappend_no_nul(pb, Str(<<"\\", "f">>), 2)
      [] c = 34 -> printbuf_memappend_no_nul(pb, Str(<<"\\", "\"">>), 2)
      [] c = 92 -> printbuf_memappend_no_nul(pb, Str(<<"\\", "\\">>), 2)
      [] c = 47 -> printbuf_memappend_no_nul(pb, Str(<<"\\", "/">>), 2)
      [] OTHER -> sprintbuf(pb, Str(<<"\\", "u", "0", "0">>)
                                \o <<fjson_hex_chars(c \div 16), fjson_hex_chars(c % 16)>>)

\* the loop of fjson_escape_str: str is the buffer, i the cursor and
\* start_offset the start of the run not yet flushed (both 1-based)
RECURSIVE escape_loop(_, _, _, _)
escape_loop(pb, str, start_offset, i) ==
    IF needsEscape(signed_char(str[i])) # 0
    THEN IF str[i] = 0
         THEN IF i # start_offset
              THEN printbuf_memappend_no_nul(pb, SubSeq(str, start_offset, Len(str)),
                                             i - start_offset)
              ELSE pb
         ELSE LET pb1 == IF i # start_offset
                         THEN printbuf_memappend_no_nul(
                                  pb, SubSeq(str, start_offset, Len(str)), i - start_offset)
                         ELSE pb
              IN escape_loop(escape_one(pb1, signed_char(str[i])), str, i + 1, i + 1)
    ELSE escape_loop(pb, str, start_offset, i + 1)

fjson_escape_str(pb, str) == escape_loop(pb, str, 1, 1)

----------------------------------------------------------------------------
(* The serializers of the print-buffer path *)

RECURSIVE call_to_json_string(_, _, _, _, _)
RECURSIVE object_foreach(_, _, _, _, _, _, _)
RECURSIVE array_for(_, _, _, _, _, _, _)

\* strchr: the 1-based position of the first c in buf, 0 for NULL
strchr(buf, c) ==
    IF \E i \in 1..Len(buf) : buf[i] = c
    THEN CHOOSE i \in 1..Len(buf) : buf[i] = c /\ \A j \in 1..(i - 1) : buf[j] # c
    ELSE 0

get_string_component(h, jso) == h[jso].c_string.data

indent(pb, level, flags) ==
    IF "PRETTY" \in flags
    THEN IF "PRETTY_TAB" \in flags
         THEN printbuf_memset(pb, 9, level)
         ELSE printbuf_memset(pb, 32, level * 2)
    ELSE pb

\* the body of fjson_object_object_foreachC in
\* fjson_object_object_to_json_string, from entry i on
object_foreach(h, ents, i, had_children, pb, level, flags) ==
    IF i > Len(ents) THEN [pb |-> pb, had_children |-> had_children]
    ELSE LET pb1 == IF had_children
                    THEN LET a == printbuf_memappend_char(pb, 44)
                         IN IF "PRETTY" \in flags
                            THEN printbuf_memappend_char(a, 10) ELSE a
                    ELSE pb
             pb2 == IF "SPACED" \in flags
                    THEN printbuf_memappend_char(pb1, 32) ELSE pb1
             pb3 == indent(pb2, level + 1, flags)
             pb4 == printbuf_memappend_char(pb3, 34)
             pb5 == fjson_escape_str(pb4, ents[i].k \o <<0>>)
             pb6 == IF "SPACED" \in flags
                    THEN printbuf_memappend_no_nul(pb5, Str(<<"\"", ":", " ">>), 3)
                    ELSE printbuf_memappend_no_nul(pb5, Str(<<"\"", ":">>), 2)
             pb7 == IF ents[i].v = NULL
                    THEN printbuf_memappend_no_nul(pb6, Str(<<"n", "u", "l", "l">>), 4)
                    ELSE call_to_json_string(h, ents[i].v, pb6, level + 1, flags)
         IN object_foreach(h, ents, i + 1, TRUE, pb7, level, flags)

\* an object serializer that would not look at SPACED
object_to_json_string_tight(h, jso, pb, level, flags) ==
    LET tight == flags \ {"SPACED"}
        pb1 == printbuf_memappend_char(pb, 123)
        pb2 == IF "PRETTY" \in tight THEN printbuf_memappend_char(pb1, 10) ELSE pb1
        pb3 == With(object_foreach(h, h[jso].c_object, 1, FALSE, pb2, level, tight),
                    LAMBDA r :
                        IF "PRETTY" \in tight
                        THEN indent(IF r.had_children
                                    THEN printbuf_memappend_no_nul(r.pb, <<10>>, 1)
                                    ELSE r.pb,
                                    level, tight)
                        ELSE r.pb)
    IN printbuf_memappend_char(pb3, 125)

fjson_object_object_to_json_string(h, jso, pb, level, flags) ==
    LET pb1 == printbuf_memappend_char(pb, 123)
        pb2 == IF "PRETTY" \in flags THEN printbuf_memappend_char(pb1, 10) ELSE pb1
        pb3 == With(object_foreach(h, h[jso].c_object, 1, FALSE, pb2, level, flags),
                    LAMBDA r :
                        IF "PRETTY" \in flags
                        THEN indent(IF r.had_children
                                    THEN printbuf_memappend_no_nul(r.pb, <<10>>, 1)
                                    ELSE r.pb,
                                    level, flags)
                        ELSE r.pb)
    IN With(pb3, LAMBDA pb4 :
            IF "SPACED" \in flags
            THEN printbuf_memappend_no_nul(pb4, Str(<<" ", "}">>), 2)
            ELSE printbuf_memappend_char(pb4, 125))

fjson_object_boolean_to_json_string(h, jso, pb, level, flags) ==
    IF h[jso].c_boolean # 0
    THEN printbuf_memappend_no_nul(pb, Str(<<"t", "r", "u", "e">>), 4)
    ELSE printbuf_memappend_no_nul(pb, Str(<<"f", "a", "l", "s", "e">>), 5)

fjson_object_int_to_json_string(h, jso, pb, level, flags) ==
    sprintbuf(pb, PRId64(h[jso].c_int64))

\* the trailing-zero loop: from q on, p moves to the last byte that is not '0'
RECURSIVE last_useful(_, _, _)
last_useful(buf, p, q) ==
    IF q > Len(buf) THEN p
    ELSE last_useful(buf, IF buf[q] # 48 THEN q ELSE p, q + 1)

fjson_object_double_to_json_string(h, jso, pb, level, flags) ==
    LET d == h[jso].c_double
        buf0 == CASE d.cls = "nan" -> Str(<<"N", "a", "N">>)
                  [] d.cls = "inf" -> Str(<<"I", "n", "f", "i", "n", "i", "t", "y">>)
                  [] d.cls = "-inf" -> Str(<<"-", "I", "n", "f", "i", "n", "i", "t", "y">>)
                  [] OTHER -> d.g17
        comma == strchr(buf0, 44)
        buf == IF comma # 0 THEN [buf0 EXCEPT ![comma] = 46] ELSE buf0
        p == IF comma # 0 THEN comma ELSE strchr(buf0, 46)
        size == IF p # 0 /\ "NOZERO" \in flags
                THEN last_useful(buf, p + 1, p + 1)
                ELSE Len(buf0)
    IN printbuf_memappend_no_nul(pb, buf, size)

fjson_object_userdata_to_json_string(h, jso, pb, level, flags) ==
    LET userdata_len == strlen(h[jso].userdata.text)
    IN printbuf_memappend_no_nul(pb, h[jso].userdata.text, userdata_len)

fjson_object_string_to_json_string(h, jso, pb, level, flags) ==
    LET pb1 == printbuf_memappend_char(pb, 34)
        pb2 == fjson_escape_str(pb1, get_string_component(h, jso))
    IN printbuf_memappend_char(pb2, 34)

\* a loop that would pass over the positions that hold no Value
RECURSIVE array_for_values(_, _, _, _, _, _, _)
array_for_values(h, arr, ii, had_children, pb, level, flags) ==
    IF ~(ii < Len(arr)) THEN [pb |-> pb, had_children |-> had_children]
    ELSE IF arr[ii + 1] = NULL
         THEN array_for_values(h, arr, ii + 1, had_children, pb, level, flags)
         ELSE LET pb1 == IF had_children
                         THEN LET a == printbuf_memappend_char(pb, 44)
                              IN IF "PRETTY" \in flags
                                 THEN printbuf_memappend_char(a, 10) ELSE a
                         ELSE pb
                  pb2 == IF "SPACED" \in flags
                         THEN printbuf_memappend_char(pb1, 32) ELSE pb1
                  pb3 == indent(pb2, level + 1, flags)
                  pb4 == call_to_json_string(h, arr[ii + 1], pb3, level + 1, flags)
              IN array_for_values(h, arr, ii + 1, TRUE, pb4, level, flags)

\* the loop of fjson_object_array_to_json_string, from index ii (0-based) on
array_for(h, arr, ii, had_children, pb, level, flags) ==
    IF ~(ii < Len(arr)) THEN [pb |-> pb, had_children |-> had_children]
    ELSE LET pb1 == IF had_children
                    THEN LET a == printbuf_memappend_char(pb, 44)
                         IN IF "PRETTY" \in flags
                            THEN printbuf_memappend_char(a, 10) ELSE a
                    ELSE pb
             pb2 == IF "SPACED" \in flags
                    THEN printbuf_memappend_char(pb1, 32) ELSE pb1
             pb3 == indent(pb2, level + 1, flags)
             val == arr[ii + 1]
             pb4 == IF val = NULL
                    THEN printbuf_memappend_no_nul(pb3, Str(<<"n", "u", "l", "l">>), 4)
                    ELSE call_to_json_string(h, val, pb3, level + 1, flags)
         IN array_for(h, arr, ii + 1, TRUE, pb4, level, flags)

fjson_object_array_to_json_string(h, jso, pb, level, flags) ==
    LET pb1 == printbuf_memappend_char(pb, 91)
        pb2 == IF "PRETTY" \in flags THEN printbuf_memappend_char(pb1, 10) ELSE pb1
        pb3 == With(array_for(h, h[jso].c_array, 0, FALSE, pb2, level, flags),
                    LAMBDA r :
                        IF "PRETTY" \in flags
                        THEN indent(IF r.had_children
                                    THEN printbuf_memappend_char(r.pb, 10)
                                    ELSE r.pb,
                                    level, flags)
                        ELSE r.pb)
    IN With(pb3, LAMBDA pb4 :
            IF "SPACED" \in flags
            THEN printbuf_memappend_no_nul(pb4, Str(<<" ", "]">>), 2)
            ELSE printbuf_memappend_char(pb4, 93))

\* the tests' custom_serializer: sprintbuf(pb, "Custom Output")
custom_serializer(h, jso, pb, level, flags) ==
    sprintbuf(pb, Str(<<"C", "u", "s", "t", "o", "m", " ", "O", "u", "t", "p", "u", "t">>))

\* jso->_to_json_string(jso, pb, level, flags)
call_to_json_string(h, jso, pb, level, flags) ==
    CASE h[jso].to_json_string = "fjson_object_object_to_json_string" ->
             fjson_object_object_to_json_string(h, jso, pb, level, flags)
      [] h[jso].to_json_string = "fjson_object_boolean_to_json_string" ->
             fjson_object_boolean_to_json_string(h, jso, pb, level, flags)
      [] h[jso].to_json_string = "fjson_object_int_to_json_string" ->
             fjson_object_int_to_json_string(h, jso, pb, level, flags)
      [] h[jso].to_json_string = "fjson_object_double_to_json_string" ->
             fjson_object_double_to_json_string(h, jso, pb, level, flags)
      [] h[jso].to_json_string = "fjson_object_string_to_json_string" ->
             fjson_object_string_to_json_string(h, jso, pb, level, flags)
      [] h[jso].to_json_string = "fjson_object_array_to_json_string" ->
             fjson_object_array_to_json_string(h, jso, pb, level, flags)
      [] h[jso].to_json_string = "fjson_object_userdata_to_json_string" ->
             fjson_object_userdata_to_json_string(h, jso, pb, level, flags)
      [] h[jso].to_json_string = "custom_serializer" ->
             custom_serializer(h, jso, pb, level, flags)

\* a fjson_object_to_json_string_ext that would not reset the buffer
to_json_string_ext_append(M, jso, flags) ==
    IF jso = NULL THEN [M EXCEPT !.rv = Str(<<"n", "u", "l", "l">>)]
    ELSE LET M1 == IF ~M.heap[jso].pb.alloc
                   THEN [M EXCEPT !.heap[jso].pb = [alloc |-> TRUE, buf |-> printbuf_new],
                                  !.mem = @ \cup {<<"pb", jso>>}]
                   ELSE M
         IN With(call_to_json_string(M1.heap, jso, M1.heap[jso].pb.buf, 0, flags),
                 LAMBDA pb1 : [M1 EXCEPT !.heap[jso].pb.buf = pb1, !.rv = pb1])

fjson_object_to_json_string_ext(M, jso, flags) ==
    IF jso = NULL THEN [M EXCEPT !.rv = Str(<<"n", "u", "l", "l">>)]
    ELSE LET M1 == IF ~M.heap[jso].pb.alloc
                   THEN [M EXCEPT !.heap[jso].pb = [alloc |-> TRUE, buf |-> printbuf_new],
                                  !.mem = @ \cup {<<"pb", jso>>}]
                   ELSE M
             pb0 == printbuf_reset(M1.heap[jso].pb.buf)
         IN With(call_to_json_string(M1.heap, jso, pb0, 0, flags),
                 LAMBDA pb1 : [M1 EXCEPT !.heap[jso].pb.buf = pb1, !.rv = pb1])

fjson_object_to_json_string(M, jso) ==
    fjson_object_to_json_string_ext(M, jso, {"SPACED"})

----------------------------------------------------------------------------
(* The object's table (linkhash): entries in insertion order.  An entry is *)
(* its key bytes k, the key instance kinst (the pointer stored),           *)
(* k_is_constant and the value handle v.                                   *)

\* lh_table_lookup_entry_w_hash: the position of the entry found, 0 for
\* none.  With equal keys in the table which one the probe meets first
\* depends on the slots; M.pick is that choice.
lh_table_lookup_entry_w_hash(M, ents, k) ==
    LET found == {i \in 1..Len(ents) : ents[i].k = k}
    IN IF found = {} THEN 0
       ELSE IF M.pick \in found THEN M.pick
       ELSE CHOOSE i \in found : \A j \in found : i <= j

\* lh_table_insert_w_hash: the new entry goes to the tail of the list
lh_table_insert_w_hash(ents, k, kinst, v, k_is_constant) ==
    Append(ents, [k |-> k, kinst |-> kinst, k_is_constant |-> k_is_constant, v |-> v])

lh_table_length(ents) == Len(ents)

RemoveAt(seq, i) == SubSeq(seq, 1, i - 1) \o SubSeq(seq, i + 1, Len(seq))

\* lh_table_delete: unlink the entry found and run free_fn on it
lh_table_delete(M, jso, k) ==
    LET ents == M.heap[jso].c_object
        e == lh_table_lookup_entry_w_hash(M, ents, k)
    IN IF e = 0 THEN [M EXCEPT !.rv = 0 - 1]
       ELSE LET M1 == [M EXCEPT !.heap[jso].c_object = RemoveAt(ents, e)]
            IN [fjson_object_lh_entry_free(M1, ents[e]) EXCEPT !.rv = 0]

----------------------------------------------------------------------------
(* Objects *)

fjson_object_new_object(M) ==
    LET M1 == fjson_object_new(M, "object")
        jso == M1.rv
        M2 == [M1 EXCEPT !.heap[jso].delete = "fjson_object_object_delete",
                         !.heap[jso].to_json_string = "fjson_object_object_to_json_string",
                         !.heap[jso].c_object = <<>>]
    IN IF jso = NULL THEN M1
       ELSE IF ~Granted(M2)
       THEN [fjson_object_generic_delete(Asked(M2), jso) EXCEPT !.rv = NULL]
       ELSE [Asked(M2) EXCEPT !.mem = @ \cup {<<"table", jso>>}]

\* a library-owned copy of the key (strdup) or the caller's pointer
new_key(M, owned) ==
    [M EXCEPT !.nextKey = @ + 1,
              !.mem = IF owned THEN @ \cup {<<"key", M.nextKey>>} ELSE @]

fjson_object_object_add_ex(M, jso, key, val, opts) ==
    IF jso = NULL THEN SIGSEGV(M) ELSE
    LET ents == M.heap[jso].c_object
        existing_entry == IF "KEY_IS_NEW" \in opts THEN 0
                          ELSE lh_table_lookup_entry_w_hash(M, ents, key)
    IN IF existing_entry = 0
       THEN LET M1 == new_key(M, "KEY_IS_CONSTANT" \notin opts)
            IN [M1 EXCEPT !.heap[jso].c_object =
                   lh_table_insert_w_hash(ents, key, M.nextKey, val,
                                          "KEY_IS_CONSTANT" \in opts)]
       ELSE LET existing_value == ents[existing_entry].v
                M1 == IF existing_value # NULL
                      THEN fjson_object_put(M, existing_value) ELSE M
            IN [M1 EXCEPT !.heap[jso].c_object[existing_entry].v = val]

\* a fjson_object_object_add that would replace by deleting the entry and
\* inserting a new one
object_add_reinsert(M, jso, key, val) ==
    LET M0 == IF lh_table_lookup_entry_w_hash(M, M.heap[jso].c_object, key) = 0
              THEN M ELSE lh_table_delete(M, jso, key)
        M1 == new_key(M0, TRUE)
    IN [M1 EXCEPT !.heap[jso].c_object =
           lh_table_insert_w_hash(M0.heap[jso].c_object, key, M0.nextKey, val, FALSE)]

\* a fjson_object_object_add that would not look the key up
object_add_no_lookup(M, jso, key, val) ==
    LET M1 == new_key(M, TRUE)
    IN [M1 EXCEPT !.heap[jso].c_object =
           lh_table_insert_w_hash(M.heap[jso].c_object, key, M.nextKey, val, FALSE)]

\* a fjson_object_object_add that would not release the value it replaces
object_add_no_put(M, jso, key, val) ==
    LET ents == M.heap[jso].c_object
        existing_entry == lh_table_lookup_entry_w_hash(M, ents, key)
    IN IF existing_entry = 0
       THEN LET M1 == new_key(M, TRUE)
            IN [M1 EXCEPT !.heap[jso].c_object =
                   lh_table_insert_w_hash(ents, key, M.nextKey, val, FALSE)]
       ELSE [M EXCEPT !.heap[jso].c_object[existing_entry].v = val]

fjson_object_object_add(M, jso, key, val) ==
    IF jso = NULL THEN SIGSEGV(M) ELSE
    LET ents == M.heap[jso].c_object
        existing_entry == lh_table_lookup_entry_w_hash(M, ents, key)
    IN IF existing_entry = 0
       THEN LET M1 == new_key(M, TRUE)
            IN [M1 EXCEPT !.heap[jso].c_object =
                   lh_table_insert_w_hash(ents, key, M.nextKey, val, FALSE)]
       ELSE LET existing_value == ents[existing_entry].v
                M1 == IF existing_value # NULL
                      THEN fjson_object_put(M, existing_value) ELSE M
            IN [M1 EXCEPT !.heap[jso].c_object[existing_entry].v = val]

fjson_object_object_length(M, jso) ==
    IF jso = NULL THEN SIGSEGV(M) ELSE
    [M EXCEPT !.rv = lh_table_length(M.heap[jso].c_object)]

fjson_object_object_del(M, jso, key) ==
    IF jso = NULL THEN SIGSEGV(M) ELSE lh_table_delete(M, jso, key)

fjson_object_get_object(h, jso) ==
    IF jso = NULL THEN NULL
    ELSE IF h[jso].o_type = "object" THEN jso ELSE NULL

----------------------------------------------------------------------------
(* The object iterator: opaque_ is the position of an entry in the list,   *)
(* kObjectEndIterValue (NULL) past the last one                            *)

kObjectEndIterValue == NULL

\* pTable->head
fjson_object_iter_begin(h, obj) ==
    IF h[fjson_object_get_object(h, obj)].c_object = <<>>
    THEN [opaque_ |-> NULL] ELSE [opaque_ |-> 1]

fjson_object_iter_end(h, obj) == [opaque_ |-> kObjectEndIterValue]

\* ((struct lh_entry *)iter->opaque_)->next
\* an iterator step that gives the end iterator one entry early
iter_next_early(h, obj, iter) ==
    IF iter.opaque_ + 1 < Len(h[obj].c_object)
    THEN [opaque_ |-> iter.opaque_ + 1] ELSE [opaque_ |-> NULL]

fjson_object_iter_next(h, obj, iter) ==
    IF iter.opaque_ < Len(h[obj].c_object)
    THEN [opaque_ |-> iter.opaque_ + 1] ELSE [opaque_ |-> NULL]

fjson_object_iter_peek_name(h, obj, iter) == h[obj].c_object[iter.opaque_].k

fjson_object_iter_peek_value(h, obj, iter) == h[obj].c_object[iter.opaque_].v

fjson_object_iter_equal(iter1, iter2) == iter1.opaque_ = iter2.opaque_

\* the keys a begin/next walk to end yields, from iterator it on
RECURSIVE iter_walk(_, _, _)
iter_walk(h, obj, it) ==
    IF fjson_object_iter_equal(it, fjson_object_iter_end(h, obj)) THEN <<>>
    ELSE <<fjson_object_iter_peek_name(h, obj, it)>>
         \o iter_walk(h, obj, fjson_object_iter_next(h, obj, it))

----------------------------------------------------------------------------
(* The other constructors *)

fjson_object_new_boolean(M, b) ==
    LET M1 == fjson_object_new(M, "boolean")
    IN IF M1.rv = NULL THEN M1
       ELSE [M1 EXCEPT !.heap[M1.rv].to_json_string = "fjson_object_boolean_to_json_string",
                       !.heap[M1.rv].c_boolean = b]

fjson_object_new_int(M, i) ==
    LET M1 == fjson_object_new(M, "int")
    IN IF M1.rv = NULL THEN M1
       ELSE [M1 EXCEPT !.heap[M1.rv].to_json_string = "fjson_object_int_to_json_string",
                       !.heap[M1.rv].c_int64 = Int64(i)]

\* the int64_t i is given as its sign and digits
fjson_object_new_int64(M, i) ==
    LET M1 == fjson_object_new(M, "int")
    IN IF M1.rv = NULL THEN M1
       ELSE [M1 EXCEPT !.heap[M1.rv].to_json_string = "fjson_object_int_to_json_string",
                       !.heap[M1.rv].c_int64 = i]

fjson_object_new_double(M, d) ==
    LET M1 == fjson_object_new(M, "double")
    IN IF M1.rv = NULL THEN M1
       ELSE [M1 EXCEPT !.heap[M1.rv].to_json_string = "fjson_object_double_to_json_string",
                       !.heap[M1.rv].c_double = d]

\* ds is a C string; new_ds = strdup(ds) is the user data of the Value
fjson_object_new_double_s(M, d, ds) ==
    LET M1 == fjson_object_new_double(M, d)
        jso == M1.rv
        M2 == [Asked(M1) EXCEPT !.mem = @ \cup {<<"ds", M1.nextTok>>},
                                !.nextTok = @ + 1]
        new_ds == [tok |-> M1.nextTok, text |-> CStr(ds) \o <<0>>]
    IN IF jso = NULL THEN M1
       ELSE IF ~Granted(M1)
       THEN [fjson_object_generic_delete(Asked(M1), jso) EXCEPT !.rv = NULL]
       ELSE [fjson_object_set_serializer(M2, jso, "fjson_object_userdata_to_json_string",
                                         new_ds, "fjson_object_free_userdata")
             EXCEPT !.rv = jso]

\* s is a C string
fjson_object_new_string(M, s) ==
    LET M1 == fjson_object_new(M, "string")
        jso == M1.rv
        len == strlen(s)
        M2 == [M1 EXCEPT !.heap[jso].delete = "fjson_object_string_delete",
                         !.heap[jso].to_json_string = "fjson_object_string_to_json_string",
                         !.heap[jso].c_string = [len |-> len, data |-> CStr(s) \o <<0>>]]
    IN IF jso = NULL THEN M1
       ELSE IF len < LEN_DIRECT_STRING_DATA THEN M2
       ELSE IF ~Granted(M2)
       THEN [fjson_object_generic_delete(Asked(M2), jso) EXCEPT !.rv = NULL]
       ELSE [Asked(M2) EXCEPT !.mem = @ \cup {<<"str", jso>>}]

\* memcpy(dstbuf, s, len); dstbuf[len] = 0
fjson_object_new_string_len(M, s, len) ==
    LET M1 == fjson_object_new(M, "string")
        jso == M1.rv
        M2 == [M1 EXCEPT !.heap[jso].delete = "fjson_object_string_delete",
                         !.heap[jso].to_json_string = "fjson_object_string_to_json_string"]
        M3 == IF len < LEN_DIRECT_STRING_DATA THEN M2
              ELSE [Asked(M2) EXCEPT !.mem = @ \cup {<<"str", jso>>}]
    IN IF jso = NULL THEN M1
       ELSE IF len >= LEN_DIRECT_STRING_DATA /\ ~Granted(M2)
       THEN [fjson_object_generic_delete(Asked(M2), jso) EXCEPT !.rv = NULL]
       ELSE [M3 EXCEPT !.heap[jso].c_string =
                           [len |-> len, data |-> SubSeq(s, 1, len) \o <<0>>]]

\* array_list_new's result is stored as it is: a null pointer if its
\* allocation failed
fjson_object_new_array(M) ==
    LET M1 == fjson_object_new(M, "array")
        jso == M1.rv
        M2 == [M1 EXCEPT !.heap[jso].delete = "fjson_object_array_delete",
                         !.heap[jso].to_json_string = "fjson_object_array_to_json_string",
                         !.heap[jso].c_array = <<>>]
    IN IF jso = NULL THEN M1
       ELSE IF ~Granted(M2) THEN Asked(M2)
       ELSE [Asked(M2) EXCEPT !.heap[jso].has_list = TRUE,
                              !.mem = @ \cup {<<"array", jso>>}]

----------------------------------------------------------------------------
(* Arrays *)

array_list_length(arr) == Len(arr)

\* array_list_get_idx: NULL beyond the length
array_list_get_idx(arr, i) == IF i >= 0 /\ i < Len(arr) THEN arr[i + 1] ELSE NULL

\* the array_list functions read the list they are given: the null
\* pointer of an array made without one faults as a null handle does
NoList(M, jso) ==
    jso = NULL \/ (M.heap[jso].o_type = "array" /\ ~M.heap[jso].has_list)

fjson_object_array_length(M, jso) ==
    IF NoList(M, jso) THEN SIGSEGV(M)
    ELSE [M EXCEPT !.rv = array_list_length(M.heap[jso].c_array)]

fjson_object_array_get_idx(M, jso, idx) ==
    IF NoList(M, jso) THEN SIGSEGV(M)
    ELSE [M EXCEPT !.rv = array_list_get_idx(M.heap[jso].c_array, idx)]

\* array_list_add: the element goes to the end of the list
array_list_add(arr, data) == Append(arr, data)

fjson_object_array_add(M, jso, val) ==
    IF NoList(M, jso) THEN SIGSEGV(M) ELSE
    [M EXCEPT !.heap[jso].c_array = array_list_add(@, val), !.rv = 0]

\* array_list_put_idx: the list grows to idx + 1 elements, the new ones
\* null; free_fn is called on the element that was at idx and data takes
\* its place
array_list_put_idx(M, jso, idx, data) ==
    LET arr == M.heap[jso].c_array
        grown == IF idx < Len(arr) THEN arr
                 ELSE arr \o Rep(NULL, idx + 1 - Len(arr))
        M1 == IF grown[idx + 1] # NULL
              THEN fjson_object_array_entry_free(M, grown[idx + 1]) ELSE M
    IN [M1 EXCEPT !.heap[jso].c_array = [grown EXCEPT ![idx + 1] = data],
                  !.rv = 0]

fjson_object_array_put_idx(M, jso, idx, val) ==
    IF NoList(M, jso) THEN SIGSEGV(M)
    ELSE array_list_put_idx(M, jso, idx, val)

----------------------------------------------------------------------------
(* The callback path (dump/write): the serializers hand their output in    *)
(* chunks to a write callback and add up what it returns.  S is the state  *)
(* of one call chain: the callback calls made (calls), the free room of    *)
(* the sink behind the callback (room), the local variable `result` of the *)
(* function that is running and the value the last call returned (rv).     *)

\* snprintf(buf, size, ...) for the formatted text given: the buffer holds
\* at most size - 1 bytes of it and a NUL, the return value is the length
\* of the whole text
snprintf(size, text) ==
    LET n == IF Len(text) < size THEN Len(text) ELSE size - 1
    IN [buf |-> SubSeq(text, 1, n) \o <<0>>, size |-> Len(text)]

\* the write callback: like fwrite on a file with room for S.room bytes, it
\* takes what fits and returns the number of bytes taken
fwrite_wrapper(S, buffer, size) ==
    LET n == IF size <= S.room THEN size ELSE S.room
    IN [S EXCEPT !.calls = Append(@, [buf |-> SubSeq(buffer, 1, size), ret |-> n]),
                 !.room = @ - n,
                 !.rv = n]

\* func(ptr, buffer, size)
func(S, buffer, size) == fwrite_wrapper(S, buffer, size)

\* result += <call>, for the state T after the call made in state S
Plus(S, T) == [T EXCEPT !.result = S.result + T.rv]

\* a result += func(ptr, buffer, size) that would offer once more what the
\* callback did not take
emit_again(S, buffer, size) ==
    LET T == Plus(S, func(S, buffer, size))
    IN IF T.rv < size
       THEN Plus(T, func(T, SubSeq(buffer, T.rv + 1, size), size - T.rv))
       ELSE T

\* result += func(ptr, buffer, size)
Emit(S, buffer, size) == Plus(S, func(S, buffer, size))

\* size_t result = 0 on entry, return result on exit
Enter(S) == [S EXCEPT !.result = 0]
Return(S) == [S EXCEPT !.rv = S.result]

\* char_needsEscape[256]
char_needsEscape(i) == IF i < 32 \/ i \in {34, 47, 92} THEN 1 ELSE 0

\* the switch of escape on *str = c
dump_escape_one(S, c) ==
    CASE c = 8 -> Emit(S, Str(<<"\\", "b">>), 2)
      [] c = 10 -> Emit(S, Str(<<"\\", "n">>), 2)
      [] c = 13 -> Emit(S, Str(<<"\\", "r">>), 2)
      [] c = 9 -> Emit(S, Str(<<"\\", "t">>), 2)
      [] c = 12 -> Emit(S, Str(<<"\\", "f">>), 2)
      [] c = 34 -> Emit(S, Str(<<"\\", "\"">>), 2)
      [] c = 92 -> Emit(S, Str(<<"\\", "\\">>), 2)
      [] c = 47 -> Emit(S, Str(<<"\\", "/">>), 2)
      [] OTHER ->
             \* char tempbuf[6]
             LET tempbuf == snprintf(6, Str(<<"\\", "u", "0", "0">>)
                                        \o <<fjson_hex_chars(c \div 16),
                                             fjson_hex_chars(c % 16)>>)
             IN Emit(S, tempbuf.buf, tempbuf.size)

\* the loop of escape
RECURSIVE dump_escape_loop(_, _, _, _)
dump_escape_loop(S, str, start_offset, i) ==
    IF char_needsEscape(str[i]) # 0
    THEN IF signed_char(str[i]) = 0
         THEN IF i # start_offset
              THEN Emit(S, SubSeq(str, start_offset, Len(str)), i - start_offset)
              ELSE S
         ELSE LET S1 == IF i # start_offset
                        THEN Emit(S, SubSeq(str, start_offset, Len(str)),
                                  i - start_offset)
                        ELSE S
              IN dump_escape_loop(dump_escape_one(S1, signed_char(str[i])),
                                  str, i + 1, i + 1)
    ELSE dump_escape_loop(S, str, start_offset, i + 1)

\* escape(str, func, ptr)
dump_escape(S, str) == Return(dump_escape_loop(Enter(S), str, 1, 1))

\* the loop of indent (callback path), from i on
RECURSIVE dump_indent_loop(_, _, _, _)
dump_indent_loop(S, i, level, flags) ==
    IF ~(i < level) THEN S
    ELSE dump_indent_loop(IF "PRETTY_TAB" \in flags
                          THEN Emit(S, <<9>>, 1)
                          ELSE Emit(S, <<32, 32>>, 2),
                          i + 1, level, flags)

\* indent(level, flags, func, ptr)
dump_indent(S, level, flags) ==
    IF "PRETTY" \notin flags THEN [S EXCEPT !.rv = 0]
    ELSE Return(dump_indent_loop(Enter(S), 0, level, flags))

RECURSIVE write(_, _, _, _, _)
RECURSIVE write_object_loop(_, _, _, _, _, _, _)
RECURSIVE write_array_loop(_, _, _, _, _, _, _)

\* the while loop of write_object
write_object_loop(h, jso, it, had_children, level, flags, S) ==
    IF fjson_object_iter_equal(it, fjson_object_iter_end(h, jso))
    THEN [S |-> S, had_children |-> had_children]
    ELSE LET S1 == IF had_children
                   THEN LET a == Emit(S, <<44>>, 1)
                        IN IF "PRETTY" \in flags THEN Emit(a, <<10>>, 1) ELSE a
                   ELSE S
             S2 == IF "SPACED" \in flags THEN Emit(S1, <<32>>, 1) ELSE S1
             S3 == With(S2, LAMBDA s : Plus(s, dump_indent(s, level + 1, flags)))
             S4 == Emit(S3, <<34>>, 1)
             S5 == With(S4, LAMBDA s :
                        Plus(s, dump_escape(s, fjson_object_iter_peek_name(h, jso, it)
                                                 \o <<0>>)))
             S6 == With(S5, LAMBDA s :
                        IF "SPACED" \in flags
                        THEN Emit(s, Str(<<"\"", ":", " ">>), 3)
                        ELSE Emit(s, Str(<<"\"", ":">>), 2))
             S7 == With(S6, LAMBDA s :
                        Plus(s, write(h, fjson_object_iter_peek_value(h, jso, it),
                                      level + 1, flags, s)))
         IN write_object_loop(h, jso, fjson_object_iter_next(h, jso, it), TRUE,
                              level, flags, S7)

write_object(h, jso, level, flags, S) ==
    LET S1 == Emit(Enter(S), <<123>>, 1)
        S2 == IF "PRETTY" \in flags THEN Emit(S1, <<10>>, 1) ELSE S1
        S3 == With(write_object_loop(h, jso, fjson_object_iter_begin(h, jso),
                                     FALSE, level, flags, S2),
                   LAMBDA r :
                       IF "PRETTY" \in flags
                       THEN With(IF r.had_children
                                 THEN Emit(r.S, <<10>>, 1) ELSE r.S,
                                 LAMBDA a : Plus(a, dump_indent(a, level, flags)))
                       ELSE r.S)
    IN With(S3, LAMBDA s : Return(IF "SPACED" \in flags
                                  THEN Emit(s, Str(<<" ", "}">>), 2)
                                  ELSE Emit(s, <<125>>, 1)))

write_boolean(h, jso, S) ==
    IF h[jso].c_boolean # 0
    THEN func(S, Str(<<"t", "r", "u", "e">>), 4)
    ELSE func(S, Str(<<"f", "a", "l", "s", "e">>), 5)

\* char tempbuffer[32]
write_int(h, jso, S) ==
    LET tempbuffer == snprintf(32, PRId64(h[jso].c_int64))
    IN func(S, tempbuffer.buf, tempbuffer.size)

\* char buf[128]
write_double(h, jso, flags, S) ==
    LET d == h[jso].c_double
    IN IF d.source # <<>> THEN func(S, d.source, strlen(d.source))
       ELSE
       LET text == CASE d.cls = "nan" -> Str(<<"N", "a", "N">>)
                     [] d.cls = "inf" -> Str(<<"I", "n", "f", "i", "n", "i", "t", "y">>)
                     [] d.cls = "-inf" ->
                            Str(<<"-", "I", "n", "f", "i", "n", "i", "t", "y">>)
                     [] OTHER -> IF d.integral
                                 THEN d.g17 \o Str(<<".", "0">>) ELSE d.g17
           out == snprintf(128, text)
           buf0 == CStr(out.buf)
           comma == strchr(buf0, 44)
           buf == IF comma # 0 THEN [buf0 EXCEPT ![comma] = 46] ELSE buf0
           p == IF comma # 0 THEN comma ELSE strchr(buf0, 46)
           size == IF p # 0 /\ "NOZERO" \in flags
                   THEN last_useful(buf, p + 1, p + 1)
                   ELSE out.size
       IN func(S, buf, size)

write_string(h, jso, S) ==
    With(func(S, <<34>>, 1), LAMBDA S1 :
    With(dump_escape(S1, get_string_component(h, jso)), LAMBDA S2 :
    With(func(S2, <<34>>, 1), LAMBDA S3 :
         [S3 EXCEPT !.rv = S1.rv + S2.rv + S3.rv])))

\* the for loop of write_array
write_array_loop(h, jso, ii, had_children, level, flags, S) ==
    IF ~(ii < fjson_object_array_length(On(h), jso).rv)
    THEN [S |-> S, had_children |-> had_children]
    ELSE LET S1 == IF had_children
                   THEN LET a == Emit(S, <<44>>, 1)
                        IN IF "PRETTY" \in flags THEN Emit(a, <<10>>, 1) ELSE a
                   ELSE S
             S2 == IF "SPACED" \in flags THEN Emit(S1, <<32>>, 1) ELSE S1
             S3 == With(S2, LAMBDA s : Plus(s, dump_indent(s, level + 1, flags)))
             S4 == With(S3, LAMBDA s :
                        Plus(s, write(h, fjson_object_array_get_idx(On(h), jso, ii).rv,
                                      level + 1, flags, s)))
         IN write_array_loop(h, jso, ii + 1, TRUE, level, flags, S4)

write_array(h, jso, level, flags, S) ==
    LET S1 == Emit(Enter(S), <<91>>, 1)
        S2 == IF "PRETTY" \in flags THEN Emit(S1, <<10>>, 1) ELSE S1
        S3 == With(write_array_loop(h, jso, 0, FALSE, level, flags, S2),
                   LAMBDA r :
                       IF "PRETTY" \in flags
                       THEN With(IF r.had_children
                                 THEN Emit(r.S, <<10>>, 1) ELSE r.S,
                                 LAMBDA a : Plus(a, dump_indent(a, level, flags)))
                       ELSE r.S)
    IN With(S3, LAMBDA s : Return(IF "SPACED" \in flags
                                  THEN Emit(s, Str(<<" ", "]">>), 2)
                                  ELSE Emit(s, <<93>>, 1)))

\* the switch on the kind of the Value: the serializer pointer of the Value
\* is not looked at
write(h, jso, level, flags, S) ==
    IF jso = NULL THEN func(S, Str(<<"n", "u", "l", "l">>), 4)
    ELSE CASE h[jso].o_type = "null" -> func(S, Str(<<"n", "u", "l", "l">>), 4)
           [] h[jso].o_type = "boolean" -> write_boolean(h, jso, S)
           [] h[jso].o_type = "double" -> write_double(h, jso, flags, S)
           [] h[jso].o_type = "int" -> write_int(h, jso, S)
           [] h[jso].o_type = "object" -> write_object(h, jso, level, flags, S)
           [] h[jso].o_type = "array" -> write_array(h, jso, level, flags, S)
           [] h[jso].o_type = "string" -> write_string(h, jso, S)
           [] OTHER -> [S EXCEPT !.rv = 0]

\* the sink before the first callback call
Sink(room) == [calls |-> <<>>, room |-> room, result |-> 0, rv |-> 0]

\* fjson_object_dump_ext(jso, flags, func, ptr), ptr a sink with the room
\* given: the callback calls go to the call log
fjson_object_dump_ext(M, jso, flags, room) ==
    With(write(M.heap, jso, 0, flags, Sink(room)),
         LAMBDA S :
             [M EXCEPT !.events = [i \in 1..Len(S.calls) |->
                                     Ev("func", S.calls[i].ret, S.calls[i].buf)],
                       !.rv = S.rv])

fjson_object_dump(M, jso, room) == fjson_object_dump_ext(M, jso, {"SPACED"}, room)

----------------------------------------------------------------------------
(* The caller: the Values it builds, the inputs it passes and the history  *)
(* of its calls                                                            *)

KeyAbc == Str(<<"a", "b", "c">>)
KeyFoo == Str(<<"f", "o", "o">>)
Keys == {KeyAbc, KeyFoo}

AllFlags == {"SPACED", "PRETTY", "NOZERO", "PRETTY_TAB"}
FlagSets == SUBSET AllFlags
OptSets == SUBSET {"KEY_IS_NEW", "KEY_IS_CONSTANT"}

\* 0.1 and its "%.17g" text
Double01 ==
    [cls |-> "finite",
     g17 |-> Str(<<"0", ".", "1", "0", "0", "0", "0", "0", "0", "0", "0", "0", "0",
                   "0", "0", "0", "0", "0", "1">>),
     integral |-> FALSE, trunc |-> Int64(0), source |-> <<>>]

\* a finite double with its "%.17g" text, whether it is integral, and the
\* decimal digits of its integral part
Finite(g17, integral, neg, mag) ==
    [cls |-> "finite", g17 |-> g17, integral |-> integral,
     trunc |-> [neg |-> neg, mag |-> mag], source |-> <<>>]

\* 1.0, 1.25, 1e10, -1e10, 1e20, 1.5e20
Double1 == Finite(Str(<<"1">>), TRUE, FALSE, <<1>>)
Double125 == Finite(Str(<<"1", ".", "2", "5">>), FALSE, FALSE, <<1>>)
Double1e10 ==
    Finite(Str(<<"1", "0", "0", "0", "0", "0", "0", "0", "0", "0", "0">>),
           TRUE, FALSE, <<1>> \o Rep(0, 10))
DoubleNeg1e10 ==
    Finite(Str(<<"-", "1", "0", "0", "0", "0", "0", "0", "0", "0", "0", "0">>),
           TRUE, TRUE, <<1>> \o Rep(0, 10))
Double1e20 ==
    Finite(Str(<<"1", "e", "+", "2", "0">>), TRUE, FALSE, <<1>> \o Rep(0, 20))
Double15e20 ==
    Finite(Str(<<"1", ".", "5", "e", "+", "2", "0">>), TRUE, FALSE,
           <<1, 5>> \o Rep(0, 19))

\* the decimal numbers the caller makes strings of, by name, and the
\* int64_t values it makes ints of
NumberStrings == {"num", "big", "-big", "huge"}

NumberOf(kind) ==
    CASE kind = "num" -> Str(<<"1", "2">>)
      [] kind = "big" -> Str(<<"9", "9", "9", "9", "9", "9", "9", "9", "9", "9", "9">>)
      [] kind = "-big" -> Str(<<"-", "9", "9", "9", "9", "9", "9", "9", "9", "9", "9", "9">>)
      [] kind = "huge" -> Rep(57, 20)

Int64Of(kind) ==
    [neg |-> kind = "-int64", mag |-> <<1>> \o Rep(0, 10)]

\* NaN and the infinities
NonFinite(cls) == [NoDouble EXCEPT !.cls = cls]

\* the NUL-free strings the caller makes, by name: the bytes with a short
\* escape, control bytes, DEL, bytes above 127, and UTF-8 text with a
\* control byte in it
StringKinds == {"escapes", "control", "del", "high", "utf8"}

StringOf(kind) ==
    CASE kind = "escapes" -> <<8, 10, 13, 9, 12, 34, 92, 47>>
      [] kind = "control" -> <<1, 97, 31>>
      [] kind = "del" -> <<97, 127>>
      [] kind = "high" -> <<128, 255>>
      [] kind = "utf8" -> <<97, 195, 164, 27, 98>>

Range(seq) == {seq[i] : i \in 1..Len(seq)}

Without(seq, x) ==
    LET F[i \in 0..Len(seq)] ==
            IF i = 0 THEN <<>>
            ELSE IF seq[i] = x THEN F[i - 1] ELSE Append(F[i - 1], seq[i])
    IN F[Len(seq)]

\* the Values a live Value holds directly
Children(h, a) ==
    IF h[a].st = "live"
    THEN (Range([i \in 1..Len(h[a].c_object) |-> h[a].c_object[i].v])
          \cup Range(h[a].c_array)) \ {NULL}
    ELSE {}

RECURSIVE ReachSet(_, _, _)
ReachSet(h, S, n) ==
    IF n = 0 THEN S
    ELSE ReachSet(h, S \cup UNION {Children(h, a) : a \in S}, n - 1)

\* b is a or is held, at any depth, by a
Reach(h, a, b) == b \in ReachSet(h, {a}, MaxObj)

\* the machine before the first call
Machine0 ==
    [heap |-> [i \in Handles |-> Unallocated], mem |-> {},
     udel |-> [t \in 1..MaxInstalls |-> 0], ndel |-> [i \in Handles |-> 0],
     nextTok |-> 1, nextKey |-> 1, events |-> <<>>, rv |-> NULL, pick |-> 1,
     thr |-> NoThreads, cast |-> "indefinite",
     fail |-> 0, allocs |-> 0, errno |-> 0]

\* what fjson_object_to_json_string(jso) returns in heap h
Output(h, jso) == fjson_object_to_json_string([Machine0 EXCEPT !.heap = h], jso).rv

\* the constructor calls of the caller, by the name of what they make
Kinds ==
    {"object", "array", "boolean", "int", "double", "double_s", "string", "binary",
     "long"}

Construct(M, kind) ==
    CASE kind = "object" -> fjson_object_new_object(M)
      [] kind = "array" -> fjson_object_new_array(M)
      [] kind = "boolean" -> fjson_object_new_boolean(M, 1)
      [] kind = "int" -> fjson_object_new_int(M, 12)
      [] kind = "double" -> fjson_object_new_double(M, Double01)
      [] kind = "1.0" -> fjson_object_new_double(M, Double1)
      [] kind = "1.25" -> fjson_object_new_double(M, Double125)
      [] kind = "1e10" -> fjson_object_new_double(M, Double1e10)
      [] kind = "-1e10" -> fjson_object_new_double(M, DoubleNeg1e10)
      [] kind = "1e20" -> fjson_object_new_double(M, Double1e20)
      [] kind = "1.5e20" -> fjson_object_new_double(M, Double15e20)
      [] kind \in {"nan", "inf", "-inf"} ->
             fjson_object_new_double(M, NonFinite(kind))
      [] kind \in {"int64", "-int64"} -> fjson_object_new_int64(M, Int64Of(kind))
      [] kind \in NumberStrings ->
             fjson_object_new_string(M, NumberOf(kind) \o <<0>>)
      [] kind \in StringKinds ->
             fjson_object_new_string_len(M, StringOf(kind), Len(StringOf(kind)))
      [] kind = "string" ->
             fjson_object_new_string(M, Str(<<"b", "a", "r">>) \o <<0>>)
      [] kind = "binary" -> fjson_object_new_string_len(M, <<32, 0, 32>>, 3)
      [] kind = "long" ->
             fjson_object_new_string(M, Rep(120, LEN_DIRECT_STRING_DATA) \o <<0>>)
      [] kind = "long_len" ->
             fjson_object_new_string_len(M, Rep(120, LEN_DIRECT_STRING_DATA),
                                         LEN_DIRECT_STRING_DATA)
      [] kind = "double_s" ->
             fjson_object_new_double_s(M, Double01, Str(<<"0", ".", "1">>) \o <<0>>)
      [] kind = "1.000_s" ->
             fjson_object_new_double_s(M, Double1,
                 Str(<<"1", ".", "0", "0", "0">>) \o <<0>>)

\* what the caller puts into an object it builds: nothing (a NULL value) or
\* a Value fresh from its constructor
ChildKinds == {"NULL", "int", "string", "object", "double_s"}

\* the i-th key of an object the caller builds
KeySeq == <<KeyAbc, KeyFoo>>

\* fjson_object_object_add(jso, KeySeq[i], <constructor call>), for an array
\* fjson_object_array_add(jso, <constructor call>), for the members from
\* the i-th on
RECURSIVE BuildMembers(_, _, _, _)
BuildMembers(M, jso, members, i) ==
    IF i > Len(members) THEN M
    ELSE With(IF members[i] = "NULL" THEN [M EXCEPT !.rv = NULL]
              ELSE Construct(M, members[i]),
              LAMBDA M1 :
                  BuildMembers(IF M.heap[jso].o_type = "array"
                               THEN fjson_object_array_add(M1, jso, M1.rv)
                               ELSE fjson_object_object_add(M1, jso, KeySeq[i],
                                                            M1.rv),
                               jso, members, i + 1))

\* a Value of the root kind, an object with its members added
Build(root, members) ==
    With(Construct(Machine0, root),
         LAMBDA M1 : [BuildMembers(M1, M1.rv, members, 1)
                         EXCEPT !.rv = M1.rv, !.events = <<>>])

\* the member lists of the objects the caller builds
MemberLists ==
    UNION {[1..n -> ChildKinds] : n \in 0..(MaxObj - 1)}

\* the programs the caller starts with: they fit the bounds
Programs ==
    {p \in ({[root |-> k, members |-> <<>>] : k \in Kinds}
            \cup {[root |-> "object", members |-> m] : m \in MemberLists}) :
        /\ Len(p.members) <= Len(KeySeq)
        /\ Len(p.members) <= MaxKeys
        /\ Cardinality({i \in 1..Len(p.members) : p.members[i] = "double_s"})
             + (IF p.root = "double_s" THEN 1 ELSE 0) <= MaxInstalls}

NoFlags == {"-"}

\* the history of a Value:
\*   ser    the flags of the last serialization since the last change of the
\*          Value or of a Value in it (NoFlags: none)
\*   again  the serialization before the last one had the same flags, with
\*          no change in between
\*   prev   what that serialization returned
\*   phase  "plain", "custom" (a custom serializer is installed), "reset"
\*          (it was reset with a NULL function), "mutated" (changed since)
\*   pre    the output before the custom serializer was installed
\*   preDefault  the serializer then was the default of the kind
\*   gets, puts  the caller's fjson_object_get and fjson_object_put calls on it
\*   order  object: the keys in the order of their first insertion
\*   forced object: KEY_IS_NEW was passed with a key that was present
NoNote ==
    [ser |-> NoFlags, again |-> FALSE, prev |-> <<>>,
     phase |-> "plain", pre |-> <<>>, preDefault |-> TRUE,
     gets |-> 0, puts |-> 0,
     order |-> <<>>, forced |-> FALSE]

Unserialized(n) == [n EXCEPT !.ser = NoFlags, !.again = FALSE, !.prev = <<>>]

\* a change of Value w: the Values it is in are changed too
Touch(nt, w) ==
    [a \in Handles |->
        IF Reach(heap, a, w)
        THEN [Unserialized(nt[a]) EXCEPT
                 !.phase = IF a # w /\ @ \in {"custom", "reset"}
                           THEN "mutated" ELSE @]
        ELSE nt[a]]

Commit(M) ==
    /\ heap' = M.heap
    /\ mem' = M.mem
    /\ udel' = M.udel
    /\ ndel' = M.ndel
    /\ nextTok' = M.nextTok
    /\ nextKey' = M.nextKey
    /\ events' = M.events
    /\ thr' = M.thr
    /\ oob' = oob

\* the call op on jso with argument arg returned val
Ret(op, jso, arg, val) == [op |-> op, jso |-> jso, arg |-> arg, val |-> val]

\* the last call logged the event e of id
HasEvent(e, id) == \E i \in 1..Len(events) : events[i].e = e /\ events[i].id = id

\* the Value the caller's first constructor call returned
Root == NewHandle(Machine0.heap)

\* the contents a read in front of needsEscape and of the fjson_hex_chars
\* literal may find: a zero or a nonzero table byte, and any byte as the
\* hex digit
OobBytes == {0, 70}
StaticImages ==
    {[needs |-> 0, hex |-> 0]} \cup {[needs |-> 1, hex |-> b] : b \in OobBytes}

\* the Values of heap h with a string byte above 127: only their
\* serialization indexes the tables with a negative char
HighBytes(h) ==
    {a \in Handles : \E i \in 1..Len(h[a].c_string.data) :
                        h[a].c_string.data[i] >= 128}

\* the state after the caller's constructor calls for one of the programs
\* progs: it owns the one reference to the root
Start(progs) ==
    \E p \in progs :
        \E M \in {Build(p.root, p.members)} :
           /\ heap = M.heap
           /\ thr = M.thr
           /\ oob \in IF HighBytes(M.heap) = {} THEN {[needs |-> 0, hex |-> 0]}
                      ELSE StaticImages
           /\ mem = M.mem
           /\ udel = M.udel
           /\ ndel = M.ndel
           /\ nextTok = M.nextTok
           /\ nextKey = M.nextKey
           /\ events = M.events
           /\ held = [i \in Handles |-> IF i = M.rv THEN 1 ELSE 0]
           /\ ret = Ret("new", M.rv, {}, M.rv)
           /\ note = [i \in Handles |->
                        IF i = M.rv
                        THEN [NoNote EXCEPT
                                 !.order = IF p.root = "object"
                                           THEN SubSeq(KeySeq, 1, Len(p.members))
                                           ELSE <<>>]
                        ELSE NoNote]

Init == Start(Programs)

----------------------------------------------------------------------------
(* The accessors *)

fjson_object_is_type(M, jso, type) ==
    IF jso = NULL THEN [M EXCEPT !.rv = IF type = "null" THEN 1 ELSE 0]
    ELSE [M EXCEPT !.rv = IF M.heap[jso].o_type = type THEN 1 ELSE 0]

fjson_object_get_type(M, jso) ==
    IF jso = NULL THEN [M EXCEPT !.rv = "null"]
    ELSE [M EXCEPT !.rv = M.heap[jso].o_type]

\* d != 0 for a double: false for 0.0 and -0.0 only
NonZero(d) == ~(d.cls = "finite" /\ d.g17 \in {<<48>>, <<45, 48>>})

fjson_object_get_boolean(M, jso) ==
    IF jso = NULL THEN [M EXCEPT !.rv = 0]
    ELSE LET v == M.heap[jso]
         IN [M EXCEPT !.rv =
               CASE v.o_type = "boolean" -> v.c_boolean
                 [] v.o_type = "int" -> IF v.c_int64.mag # <<0>> THEN 1 ELSE 0
                 [] v.o_type = "double" -> IF NonZero(v.c_double) THEN 1 ELSE 0
                 [] v.o_type = "string" -> IF v.c_string.len # 0 THEN 1 ELSE 0
                 [] OTHER -> 0]

\* the digits at the start of a byte string
RECURSIVE DigitPrefix(_)
DigitPrefix(buf) ==
    IF buf # <<>> /\ buf[1] \in 48..57
    THEN <<buf[1] - 48>> \o DigitPrefix(Tail(buf))
    ELSE <<>>

\* a magnitude without its leading zeros
RECURSIVE Canonical(_)
Canonical(mag) ==
    IF Len(mag) > 1 /\ mag[1] = 0 THEN Canonical(Tail(mag)) ELSE mag

\* fjson_parse_int64(buf, &retval): an optional sign and decimal digits are
\* read from the start of the string, a number beyond the int64_t range is
\* INT64_MIN or INT64_MAX; ok is the return value 0
fjson_parse_int64(buf) ==
    LET str == CStr(buf)
        neg == str # <<>> /\ str[1] = 45
        rest == IF str # <<>> /\ str[1] \in {43, 45} THEN Tail(str) ELSE str
        mag == Canonical(DigitPrefix(rest))
        num == [neg |-> neg /\ mag # <<0>>, mag |-> mag]
    IN IF DigitPrefix(rest) = <<>> THEN [ok |-> FALSE, retval |-> Int64(0)]
       ELSE [ok |-> TRUE,
             retval |-> IF Less(num, INT64_MIN) THEN INT64_MIN
                        ELSE IF Less(INT64_MAX, num) THEN INT64_MAX
                        ELSE num]

\* the integer type with the limits lo and hi can hold the integral part of d
Holds(lo, hi, d) == d.cls = "finite" /\ Leq(lo, d.trunc) /\ Leq(d.trunc, hi)

\* what the conversion instruction of the build (M.cast) leaves for a
\* double d the integer type cannot hold: its "integer indefinite" value,
\* the minimum, where it is x86's cvttsd2si; where it saturates, 0 for NaN
\* and else the limit on the side of d
Unheld(M, lo, hi, d) ==
    IF M.cast = "indefinite" THEN lo
    ELSE IF d.cls = "nan" THEN Int64(0)
    ELSE IF d.cls = "-inf" \/ (d.cls = "finite" /\ d.trunc.neg) THEN lo
    ELSE hi

\* (int32_t)d and (int64_t)d: the integral part of d if the type can hold
\* it; if not the behaviour is undefined
int32_cast(M, d) ==
    IF Holds(INT32_MIN, INT32_MAX, d) THEN d.trunc
    ELSE Unheld(M, INT32_MIN, INT32_MAX, d)

int64_cast(M, d) ==
    IF Holds(INT64_MIN, INT64_MAX, d) THEN d.trunc
    ELSE Unheld(M, INT64_MIN, INT64_MAX, d)

fjson_object_get_int(M, jso) ==
    IF jso = NULL THEN [M EXCEPT !.rv = Int64(0)]
    ELSE LET v == M.heap[jso]
             parsed == fjson_parse_int64(get_string_component(M.heap, jso))
             o_type == IF v.o_type = "string" THEN "int" ELSE v.o_type
             cint64 == IF v.o_type = "string" THEN parsed.retval ELSE v.c_int64
         IN IF v.o_type = "string" /\ ~parsed.ok THEN [M EXCEPT !.rv = Int64(0)]
            ELSE [M EXCEPT !.rv =
                    CASE o_type = "int" ->
                             IF Leq(cint64, INT32_MIN) THEN INT32_MIN
                             ELSE IF Leq(INT32_MAX, cint64) THEN INT32_MAX
                             ELSE cint64
                      [] o_type = "double" -> int32_cast(M, v.c_double)
                      [] o_type = "boolean" -> Int64(v.c_boolean)
                      [] OTHER -> Int64(0)]

fjson_object_get_int64(M, jso) ==
    IF jso = NULL THEN [M EXCEPT !.rv = Int64(0)]
    ELSE LET v == M.heap[jso]
             parsed == fjson_parse_int64(get_string_component(M.heap, jso))
         IN [M EXCEPT !.rv =
               CASE v.o_type = "int" -> v.c_int64
                 [] v.o_type = "double" -> int64_cast(M, v.c_double)
                 [] v.o_type = "boolean" -> Int64(v.c_boolean)
                 [] v.o_type = "string" /\ parsed.ok -> parsed.retval
                 [] OTHER -> Int64(0)]

\* the double an int64_t widens to (exact below 2^53)
Widened(n) == Finite(PRId64(n), TRUE, n.neg, n.mag)

\* strtod(str, &errPtr) for a string without white space, point, exponent
\* and letters that spell a number: the sign and the digits at its start
\* are converted; end is the number of bytes used
strtod(str) ==
    LET signed == str # <<>> /\ str[1] \in {43, 45}
        rest == IF signed THEN Tail(str) ELSE str
        mag == Canonical(DigitPrefix(rest))
        neg == str # <<>> /\ str[1] = 45
    IN IF DigitPrefix(rest) = <<>> THEN [value |-> NoDouble, end |-> 0]
       ELSE [value |-> Finite((IF neg THEN <<45>> ELSE <<>>)
                                 \o [i \in 1..Len(mag) |-> 48 + mag[i]],
                              TRUE, neg /\ mag # <<0>>, mag),
             end |-> Len(DigitPrefix(rest)) + (IF signed THEN 1 ELSE 0)]

fjson_object_get_double(M, jso) ==
    IF jso = NULL THEN [M EXCEPT !.rv = NoDouble]
    ELSE LET v == M.heap[jso]
             str == CStr(get_string_component(M.heap, jso))
             conv == strtod(str)
         IN [M EXCEPT !.rv =
               CASE v.o_type = "double" -> v.c_double
                 [] v.o_type = "int" -> Widened(v.c_int64)
                 [] v.o_type = "boolean" -> Widened(Int64(v.c_boolean))
                 [] v.o_type = "string" ->
                        IF conv.end = 0 THEN NoDouble
                        ELSE IF conv.end # Len(str) THEN NoDouble
                        ELSE conv.value
                 [] OTHER -> NoDouble]

fjson_object_get_string(M, jso) ==
    IF jso = NULL THEN [M EXCEPT !.rv = NULL]
    ELSE IF M.heap[jso].o_type = "string"
         THEN [M EXCEPT !.rv = get_string_component(M.heap, jso)]
         ELSE fjson_object_to_json_string(M, jso)

fjson_object_get_string_len(M, jso) ==
    IF jso = NULL THEN [M EXCEPT !.rv = 0]
    ELSE IF M.heap[jso].o_type = "string"
         THEN [M EXCEPT !.rv = M.heap[jso].c_string.len]
         ELSE [M EXCEPT !.rv = 0]

\* the array_list of an array is returned as the handle of the array
fjson_object_get_array(M, jso) ==
    IF jso = NULL THEN [M EXCEPT !.rv = NULL]
    ELSE IF M.heap[jso].o_type = "array" THEN [M EXCEPT !.rv = jso]
         ELSE [M EXCEPT !.rv = NULL]

\* rv is the return value, value what *value is set to
fjson_object_object_get_ex(M, jso, key) ==
    IF jso = NULL THEN [M EXCEPT !.rv = [found |-> FALSE, value |-> NULL]]
    ELSE IF M.heap[jso].o_type = "object"
         THEN LET ents == M.heap[jso].c_object
                  e == lh_table_lookup_entry_w_hash(M, ents, key)
              IN [M EXCEPT !.rv = IF e = 0 THEN [found |-> FALSE, value |-> NULL]
                                  ELSE [found |-> TRUE, value |-> ents[e].v]]
         ELSE [M EXCEPT !.rv = [found |-> FALSE, value |-> NULL]]

fjson_object_object_get(M, jso, key) ==
    LET M1 == fjson_object_object_get_ex(M, jso, key)
    IN [M1 EXCEPT !.rv = M1.rv.value]

----------------------------------------------------------------------------
(* The API calls of the caller *)

\* the caller has a pointer to jso: it owns a reference to it or to a
\* Value that holds it
Accessible(jso) ==
    /\ Live(heap, jso)
    /\ \E a \in Handles : held[a] >= 1 /\ Reach(heap, a, jso)

\* the fjson_object_get calls the caller made so far
RECURSIVE GetCalls(_, _)
GetCalls(n, S) ==
    IF S = {} THEN 0
    ELSE LET a == CHOOSE x \in S : TRUE
         IN n[a].gets + GetCalls(n, S \ {a})

Get(jso) ==
    /\ Accessible(jso)
    /\ GetCalls(note, Handles) < MaxRef
    /\ \E M \in {fjson_object_get(Cur, jso)} :
          /\ Commit(M)
          /\ ret' = Ret("get", jso, {}, M.rv)
    /\ held' = [held EXCEPT ![jso] = @ + 1]
    /\ note' = [note EXCEPT ![jso].gets = @ + 1]

Put(jso) ==
    /\ held[jso] >= 1
    /\ \E M \in {fjson_object_put(Cur, jso)} :
          /\ Commit(M)
          /\ ret' = Ret("put", jso, {}, M.rv)
    /\ held' = [held EXCEPT ![jso] = @ - 1]
    /\ note' = [note EXCEPT ![jso].puts = @ + 1]

\* fjson_object_set_serializer(jso, custom_serializer, &userdata, freeit)
SetCustom(jso) ==
    /\ Accessible(jso)
    /\ nextTok <= MaxInstalls
    /\ \E M \in {fjson_object_set_serializer(
                    [Cur EXCEPT !.nextTok = @ + 1], jso, "custom_serializer",
                    [tok |-> nextTok, text |-> <<>>], "freeit")} :
          Commit(M)
    /\ ret' = Ret("set_serializer", jso, {}, nextTok)
    /\ note' = [Touch(note, jso) EXCEPT
                   ![jso] = IF note[jso].phase = "custom"
                            THEN Unserialized(@)
                            ELSE [Unserialized(@) EXCEPT
                                     !.phase = "custom",
                                     !.pre = Output(heap, jso),
                                     !.preDefault =
                                         heap[jso].to_json_string
                                           = DefaultSerializer(heap[jso].o_type)]]
    /\ UNCHANGED held

\* fjson_object_set_serializer(jso, NULL, NULL, NULL)
SetDefault(jso) ==
    /\ Accessible(jso)
    /\ Commit(fjson_object_set_serializer(Cur, jso, "NULL", NoUserdata, "NULL"))
    /\ ret' = Ret("set_serializer", jso, {}, NULL)
    /\ note' = [Touch(note, jso) EXCEPT
                   ![jso] = [Unserialized(@) EXCEPT
                                !.phase = IF @ = "custom" THEN "reset" ELSE @]]
    /\ UNCHANGED held

ToJsonStringExt(jso, flags) ==
    /\ Accessible(jso)
    /\ \E M \in {fjson_object_to_json_string_ext(Cur, jso, flags)} :
          /\ Commit(M)
          /\ ret' = Ret("to_json_string_ext", jso, flags, M.rv)
    /\ note' = [note EXCEPT ![jso].ser = flags,
                            ![jso].again = (note[jso].ser = flags),
                            ![jso].prev = IF note[jso].ser = flags
                                          THEN heap[jso].pb.buf ELSE <<>>]
    /\ UNCHANGED held

\* fjson_object_to_json_string(jso)
ToJsonString(jso) ==
    /\ Accessible(jso)
    /\ \E M \in {fjson_object_to_json_string(Cur, jso)} :
          /\ Commit(M)
          /\ ret' = Ret("to_json_string_ext", jso, {"SPACED"}, M.rv)
    /\ note' = [note EXCEPT ![jso].ser = {"SPACED"},
                            ![jso].again = (note[jso].ser = {"SPACED"}),
                            ![jso].prev = IF note[jso].ser = {"SPACED"}
                                          THEN heap[jso].pb.buf ELSE <<>>]
    /\ UNCHANGED held

\* the room of a sink that takes every text of the model
Enough == 255

\* the room of the sinks the caller dumps into: none, a few bytes, enough
Rooms == {0, 3, Enough}

\* fjson_object_dump_ext(jso, flags, fwrite_wrapper, fp): the Value and its
\* print buffer are left alone
DumpExt(jso, flags, room) ==
    /\ Accessible(jso)
    /\ \E M \in {fjson_object_dump_ext(Cur, jso, flags, room)} :
          /\ Commit(M)
          /\ ret' = Ret("dump_ext", jso, flags, [size |-> M.rv, room |-> room])
    /\ UNCHANGED <<held, note>>

\* the entries of ents the lookup of k may meet first: the choices of pick
\* the builds, by what their conversion of a double to an integer type
\* that cannot hold it leaves
Casts == {"indefinite", "saturating"}

GetInt(jso, cast) ==
    /\ Accessible(jso)
    /\ \E M \in {fjson_object_get_int([Cur EXCEPT !.cast = cast], jso)} :
          /\ Commit(M)
          /\ ret' = Ret("get_int", jso, cast, M.rv)
    /\ UNCHANGED <<held, note>>

GetInt64(jso, cast) ==
    /\ Accessible(jso)
    /\ \E M \in {fjson_object_get_int64([Cur EXCEPT !.cast = cast], jso)} :
          /\ Commit(M)
          /\ ret' = Ret("get_int64", jso, cast, M.rv)
    /\ UNCHANGED <<held, note>>

\* the calls the caller makes with a handle and its usual other arguments
Ops ==
    {"get", "put", "is_type", "get_type", "set_serializer", "to_json_string_ext",
     "dump_ext", "object_add", "object_length", "object_get_ex", "object_get",
     "object_del", "get_object", "get_boolean", "get_int", "get_int64",
     "get_double", "get_string", "get_string_len", "get_array", "array_length",
     "array_add", "array_get_idx"}

Invoke(M, op, jso) ==
    CASE op = "get" -> fjson_object_get(M, jso)
      [] op = "put" -> fjson_object_put(M, jso)
      [] op = "is_type" -> fjson_object_is_type(M, jso, "null")
      [] op = "get_type" -> fjson_object_get_type(M, jso)
      [] op = "set_serializer" ->
             fjson_object_set_serializer(M, jso, "NULL", NoUserdata, "NULL")
      [] op = "to_json_string_ext" -> fjson_object_to_json_string_ext(M, jso, {"SPACED"})
      [] op = "dump_ext" -> fjson_object_dump_ext(M, jso, {"SPACED"}, Enough)
      [] op = "object_add" -> fjson_object_object_add(M, jso, KeyAbc, NULL)
      [] op = "object_length" -> fjson_object_object_length(M, jso)
      [] op = "object_get_ex" -> fjson_object_object_get_ex(M, jso, KeyAbc)
      [] op = "object_get" -> fjson_object_object_get(M, jso, KeyAbc)
      [] op = "object_del" -> fjson_object_object_del(M, jso, KeyAbc)
      [] op = "get_object" -> [M EXCEPT !.rv = fjson_object_get_object(M.heap, jso)]
      [] op = "get_boolean" -> fjson_object_get_boolean(M, jso)
      [] op = "get_int" -> fjson_object_get_int(M, jso)
      [] op = "get_int64" -> fjson_object_get_int64(M, jso)
      [] op = "get_double" -> fjson_object_get_double(M, jso)
      [] op = "get_string" -> fjson_object_get_string(M, jso)
      [] op = "get_string_len" -> fjson_object_get_string_len(M, jso)
      [] op = "get_array" -> fjson_object_get_array(M, jso)
      [] op = "array_length" -> fjson_object_array_length(M, jso)
      [] op = "array_add" -> fjson_object_array_add(M, jso, NULL)
      [] op = "array_get_idx" -> fjson_object_array_get_idx(M, jso, 0)

\* the process was killed by a signal
Killed == HasEvent("SIGSEGV", NULL)

\* op(NULL, ...): the caller passes a null handle
CallNull(op) ==
    /\ ~Killed
    /\ \E M \in {Invoke(Cur, op, NULL)} :
          /\ Commit(M)
          /\ ret' = Ret(op, NULL, {}, M.rv)
    /\ UNCHANGED <<held, note>>

\* fjson_object_dump(jso, fwrite_wrapper, fp)
Dump(jso, room) ==
    /\ Accessible(jso)
    /\ \E M \in {fjson_object_dump(Cur, jso, room)} :
          /\ Commit(M)
          /\ ret' = Ret("dump_ext", jso, {"SPACED"}, [size |-> M.rv, room |-> room])
    /\ UNCHANGED <<held, note>>

\* somebody holds a reference to jso and can hand the pointer on
Shared(jso) == Live(heap, jso) /\ \E u \in Threads : thr[u] = "holding"

\* thread t, given the pointer by a thread that holds a reference, calls
\* fjson_object_get(jso)
ThreadGet(t, jso) ==
    /\ t # Caller
    /\ thr[t] = "idle"
    /\ Shared(jso)
    /\ \E M \in {fjson_object_get(Cur, jso)} :
          /\ Commit([M EXCEPT !.thr[t] = "holding"])
          /\ ret' = Ret("get", jso, t, M.rv)
    /\ UNCHANGED <<held, note>>

\* thread t calls fjson_object_put(jso) and gets as far as the count
ThreadPut(t, jso) ==
    /\ thr[t] = "holding"
    /\ \E M \in {put_count(Cur, jso)} :
          /\ Commit([M EXCEPT !.thr[t] = IF M.rv > 0 THEN "done" ELSE "last"])
          /\ ret' = Ret("put_count", jso, t, M.rv)
    /\ held' = IF t = Caller THEN [held EXCEPT ![jso] = @ - 1] ELSE held
    /\ UNCHANGED note

\* thread t, whose put fetched no count above 0, goes on and returns
ThreadDestroy(t, jso) ==
    /\ thr[t] = "last"
    /\ \E M \in {put_rest(Cur, jso, 0)} :
          /\ Commit([M EXCEPT !.thr[t] = "destroyed"])
          /\ ret' = Ret("put", jso, t, M.rv)
    /\ UNCHANGED <<held, note>>

Picks(ents, k) ==
    LET found == {i \in 1..Len(ents) : ents[i].k = k}
    IN IF found = {} THEN {NULL} ELSE found

\* the caller hands its reference to val over to the object
Adding(jso, key, val) ==
    /\ Accessible(jso)
    /\ heap[jso].o_type = "object"
    /\ val # NULL => held[val] >= 1 /\ ~Reach(heap, val, jso)

Added(op, M, jso, key, val, forced) ==
    /\ Commit(M)
    /\ held' = IF val = NULL THEN held ELSE [held EXCEPT ![val] = @ - 1]
    /\ ret' = Ret(op, jso, key, val)
    /\ note' = [Touch(note, jso) EXCEPT
                   ![jso].order = IF key \in Range(@) THEN @ ELSE Append(@, key),
                   ![jso].forced = @ \/ forced]

\* fjson_object_object_add(jso, key, val), val NULL or a Value of the caller
ObjectAdd(jso, key, val) ==
    /\ Adding(jso, key, val)
    /\ \E pick \in Picks(heap[jso].c_object, key) :
         \E M0 \in {[Cur EXCEPT !.pick = pick]} :
            /\ lh_table_lookup_entry_w_hash(M0, heap[jso].c_object, key) = 0
                => nextKey <= MaxKeys
            /\ Added("object_add", fjson_object_object_add(M0, jso, key, val),
                     jso, key, val, FALSE)

CanNew == NewHandle(heap) <= MaxObj

\* which allocation of a constructor call fails: none, the first, the second
Fails == 0..2

\* the caller's constructor call for kind; the outcome of its allocations
\* is the environment's
New(kind, fail) ==
    /\ ~Killed
    /\ CanNew
    /\ kind = "double_s" => nextTok <= MaxInstalls
    /\ \E M \in {Construct([Cur EXCEPT !.fail = fail], kind)} :
          /\ Commit(M)
          /\ ret' = Ret("construct", M.rv,
                        [kind |-> kind, fail |-> fail, allocs |-> M.allocs,
                         errno |-> M.errno], M.rv)
          /\ held' = IF M.rv = NULL THEN held ELSE [held EXCEPT ![M.rv] = @ + 1]
    /\ UNCHANGED note

\* fjson_object_object_add(jso, key, fjson_object_new_int(12))
ObjectAddNew(jso, key) ==
    /\ Accessible(jso)
    /\ heap[jso].o_type = "object"
    /\ CanNew
    /\ \E pick \in Picks(heap[jso].c_object, key) :
         \E M0 \in {fjson_object_new_int([Cur EXCEPT !.pick = pick], 12)} :
            /\ lh_table_lookup_entry_w_hash(M0, heap[jso].c_object, key) = 0
                => nextKey <= MaxKeys
            /\ Commit(fjson_object_object_add(M0, jso, key, M0.rv))
            /\ ret' = Ret("object_add", jso, key, M0.rv)
    /\ note' = [Touch(note, jso) EXCEPT
                   ![jso].order = IF key \in Range(@) THEN @ ELSE Append(@, key)]
    /\ UNCHANGED held

ObjectAddEx(jso, key, val, opts) ==
    /\ Adding(jso, key, val)
    /\ \E pick \in Picks(heap[jso].c_object, key) :
         \E M0 \in {[Cur EXCEPT !.pick = pick]} :
            /\ ("KEY_IS_NEW" \in opts
                 \/ lh_table_lookup_entry_w_hash(M0, heap[jso].c_object, key) = 0)
                => nextKey <= MaxKeys
            /\ Added("object_add_ex",
                     fjson_object_object_add_ex(M0, jso, key, val, opts),
                     jso, key, val,
                     "KEY_IS_NEW" \in opts /\ key \in Range(note[jso].order))

ObjectDel(jso, key) ==
    /\ Accessible(jso)
    /\ heap[jso].o_type = "object"
    /\ \E pick \in Picks(heap[jso].c_object, key) :
         \E M \in {fjson_object_object_del([Cur EXCEPT !.pick = pick], jso, key)} :
            /\ Commit(M)
            /\ ret' = Ret("object_del", jso, key, M.rv)
    /\ note' = [Touch(note, jso) EXCEPT ![jso].order = Without(@, key)]
    /\ UNCHANGED held

\* iter = fjson_object_iter_begin(jso): ret holds the iterator and the number
\* of fjson_object_iter_next calls made on it
IterBegin(jso) ==
    /\ Accessible(jso)
    /\ heap[jso].o_type = "object"
    /\ ret' = Ret("iter_begin", jso, 0, fjson_object_iter_begin(heap, jso))
    /\ UNCHANGED <<heap, mem, held, udel, ndel, nextTok, nextKey, events,
                   note, thr, oob>>

IterOps == {"iter_begin", "iter_next"}

\* fjson_object_iter_next(&iter) on the iterator of the caller, which is not
\* the end iterator and whose object was not changed since it was made
IterNext(jso) ==
    /\ ret.op \in IterOps
    /\ ret.jso = jso
    /\ ~fjson_object_iter_equal(ret.val, fjson_object_iter_end(heap, jso))
    /\ ret' = Ret("iter_next", jso, ret.arg + 1,
                  fjson_object_iter_next(heap, jso, ret.val))
    /\ UNCHANGED <<heap, mem, held, udel, ndel, nextTok, nextKey, events,
                   note, thr, oob>>

\* val = fjson_object_object_get(jso, key), not NULL, and then
\* fjson_object_object_add(jso, key, val), or fjson_object_object_add_ex
\* with opts (ex): the caller passes the Value the entry holds, with the
\* reference to it that it owns if it owns one
ObjectAddStored(jso, key, ex, opts) ==
    /\ Accessible(jso)
    /\ heap[jso].o_type = "object"
    /\ \E val \in {fjson_object_object_get(Cur, jso, key).rv} :
          /\ val # NULL
          /\ Commit(IF ex THEN fjson_object_object_add_ex(Cur, jso, key, val, opts)
                    ELSE fjson_object_object_add(Cur, jso, key, val))
          /\ ret' = Ret(IF ex THEN "object_add_ex" ELSE "object_add", jso, key, val)
          /\ held' = IF held[val] >= 1 THEN [held EXCEPT ![val] = @ - 1] ELSE held
    /\ note' = Touch(note, jso)

\* the highest index the caller puts an element at
MaxIdx == 3

\* fjson_object_array_put_idx(jso, idx, val) with val NULL or
\* fjson_object_new_int(n)
ArrayPutIdx(jso, idx, n) ==
    /\ Accessible(jso)
    /\ heap[jso].o_type = "array"
    /\ n # NULL => CanNew
    /\ \E M0 \in {IF n # NULL THEN fjson_object_new_int(Cur, n)
                  ELSE [Cur EXCEPT !.rv = NULL]} :
         \E M \in {fjson_object_array_put_idx(M0, jso, idx, M0.rv)} :
            /\ Commit(M)
            /\ ret' = Ret("array_put_idx", jso, idx, M0.rv)
    /\ note' = Touch(note, jso)
    /\ UNCHANGED held

----------------------------------------------------------------------------
(* Reference counting and user data: the caller shares, releases and       *)
(* customizes the Values it built                                          *)

Next ==
    \/ \E jso \in Handles : Get(jso)
    \/ \E jso \in Handles : Put(jso)
    \/ SetCustom(Root)
    \/ SetDefault(Root)
    \/ ToJsonString(Root)

Spec == Init /\ [][Next]_vars

(* The object's table: the caller adds to and deletes from its objects *)

NextObj ==
    \/ \E key \in Keys : ObjectAdd(Root, key, NULL)
    \/ \E key \in Keys : ObjectAddNew(Root, key)
    \/ \E key \in Keys, opts \in OptSets : ObjectAddEx(Root, key, NULL, opts)
    \/ \E key \in Keys : ObjectDel(Root, key)

SpecObj == Init /\ [][NextObj]_vars

(* Serialization: the caller serializes its root Value with every flag set *)

NextSer ==
    \/ \E flags \in FlagSets : ToJsonStringExt(Root, flags)
    \/ SetCustom(Root)
    \/ SetDefault(Root)

SpecSer == Init /\ [][NextSer]_vars

(* Numbers: the caller serializes doubles on the print-buffer path and on  *)
(* the callback path                                                       *)

DoubleKinds ==
    {"double", "1.0", "1.25", "1e10", "-1e10", "1e20", "1.5e20",
     "nan", "inf", "-inf", "double_s"}

DoublePrograms == {[root |-> k, members |-> <<>>] : k \in DoubleKinds}

InitDouble == Start(DoublePrograms)

\* the flag sets that matter to a number: the default, and with
\* NO_TRAILING_ZERO
NumberFlags == {{"SPACED"}, {"SPACED", "NOZERO"}, {"NOZERO"}}

NextDouble ==
    \/ \E flags \in NumberFlags : ToJsonStringExt(Root, flags)
    \/ \E flags \in NumberFlags, room \in Rooms : DumpExt(Root, flags, room)

SpecDouble == InitDouble /\ [][NextDouble]_vars

(* Strings: the caller serializes NUL-free strings on both paths *)

StringPrograms == {[root |-> k, members |-> <<>>] : k \in StringKinds}

InitString == Start(StringPrograms)

NextString ==
    \/ \E flags \in NumberFlags : ToJsonStringExt(Root, flags)
    \/ \E flags \in NumberFlags, room \in Rooms : DumpExt(Root, flags, room)

SpecString == InitString /\ [][NextString]_vars

(* Nesting: the caller customizes the Values inside a container and        *)
(* serializes the container on both paths                                  *)

NestedKinds == {"int", "object"}

NestedPrograms ==
    {[root |-> k, members |-> m] :
        k \in {"object", "array"},
        m \in {x \in UNION {[1..n -> NestedKinds] : n \in 1..(MaxObj - 1)} :
                 Len(x) <= Len(KeySeq)}}

InitNested == Start(NestedPrograms)

NextNested ==
    \/ \E jso \in Handles \ {Root} : SetCustom(jso)
    \/ \E jso \in Handles \ {Root} : SetDefault(jso)
    \/ \E flags \in NumberFlags : ToJsonStringExt(Root, flags)
    \/ \E flags \in NumberFlags : DumpExt(Root, flags, Enough)

SpecNested == InitNested /\ [][NextNested]_vars

(* Null handles: the caller passes NULL where a Value is expected *)

NextNull ==
    \E op \in Ops : CallNull(op)

SpecNull == Init /\ [][NextNull]_vars

(* Integers: the caller reads Values of every kind as int32_t and int64_t *)

IntKinds ==
    {"object", "array", "boolean", "int", "int64", "-int64", "double", "1.0",
     "1.25", "1e10", "-1e10", "1e20", "nan", "inf", "-inf", "string", "num",
     "big", "-big", "huge", "1.5e20", "double_s", "long", "binary", "del"}

IntPrograms == {[root |-> k, members |-> <<>>] : k \in IntKinds}

InitInt == Start(IntPrograms)

NextInt ==
    \/ \E cast \in Casts : GetInt(Root, cast)
    \/ \E cast \in Casts : GetInt64(Root, cast)

SpecInt == InitInt /\ [][NextInt]_vars

(* Allocation failure: the caller constructs and releases Values while     *)
(* allocations may fail                                                    *)

AllocKinds ==
    {"object", "array", "boolean", "int", "int64", "double", "double_s",
     "string", "long", "binary", "long_len"}

AllocPrograms == {[root |-> k, members |-> <<>>] : k \in AllocKinds}

InitAlloc == Start(AllocPrograms)

NextAlloc ==
    \/ \E kind \in AllocKinds, fail \in Fails : New(kind, fail)
    \/ \E jso \in Handles : ~Killed /\ Put(jso)

SpecAlloc == InitAlloc /\ [][NextAlloc]_vars

(* The callback path: the caller dumps its root Value into sinks with      *)
(* little or no room                                                       *)

NextDump ==
    \/ \E flags \in FlagSets, room \in Rooms : DumpExt(Root, flags, room)
    \/ \E room \in Rooms : Dump(Root, room)

SpecDump == Init /\ [][NextDump]_vars

(* Threads: the caller shares its root Value with other threads; each gets *)
(* a reference and puts it, the caller puts its own                        *)

NextThreads ==
    \/ \E t \in Threads : ThreadGet(t, Root)
    \/ \E t \in Threads : ThreadPut(t, Root)
    \/ \E t \in Threads : ThreadDestroy(t, Root)

SpecThreads == Init /\ [][NextThreads]_vars

(* Counting: the caller gets and puts references to the Values it built,  *)
(* and passes a null handle to both functions                              *)

NextCount ==
    \/ \E jso \in Handles : Get(jso)
    \/ \E jso \in Handles : Put(jso)
    \/ \E op \in {"get", "put"} : CallNull(op)

SpecCount == Init /\ [][NextCount]_vars

(* Arrays: the caller builds an array by appending, puts elements at       *)
(* indexes in and beyond it and then serializes it                         *)

ArrayPrograms ==
    {[root |-> "array", members |-> m] :
        m \in UNION {[1..n -> {"NULL", "int", "string"}] : n \in 0..(MaxObj - 1)}}

InitArray == Start(ArrayPrograms)

\* no flag, each layout flag, all of them
ArrayFlags == {{}, {"SPACED"}, {"PRETTY"}, {"SPACED", "PRETTY", "PRETTY_TAB"}}

NextArray ==
    \/ \E idx \in 0..MaxIdx, n \in {NULL, 7} :
          ~heap[Root].pb.alloc /\ ArrayPutIdx(Root, idx, n)
    \/ \E flags \in ArrayFlags : ToJsonStringExt(Root, flags)

SpecArray == InitArray /\ [][NextArray]_vars

(* Iteration: the caller builds an object and walks it with an iterator *)

NextIter ==
    \/ \E key \in Keys : ObjectAddNew(Root, key)
    \/ \E key \in Keys : ObjectAdd(Root, key, NULL)
    \/ \E key \in Keys : ObjectDel(Root, key)
    \/ IterBegin(Root)
    \/ IterNext(Root)

SpecIter == Init /\ [][NextIter]_vars

(* Serializers: the caller installs and resets the serializers of its Values
   and of their members, in any order, and serializes the root *)

NextInstall ==
    \/ \E jso \in Handles : SetCustom(jso)
    \/ \E jso \in Handles : SetDefault(jso)
    \/ ToJsonStringExt(Root, {})

SpecInstall == Init /\ [][NextInstall]_vars

(* Doubles with a text: the caller serializes a double built by
   fjson_object_new_double_s on both paths, replaces its serializer and puts
   it *)

TextKinds == {"double_s", "1.000_s"}

InitText == Start({[root |-> k, members |-> <<>>] : k \in TextKinds})

NextText ==
    \/ \E flags \in FlagSets : ToJsonStringExt(Root, flags)
    \/ \E flags \in FlagSets : DumpExt(Root, flags, Enough)
    \/ SetCustom(Root)
    \/ SetDefault(Root)
    \/ Put(Root)

SpecText == InitText /\ [][NextText]_vars

(* Destruction: the caller installs serializers with a user_delete on its
   Values and on their members, gets the root and puts what it holds *)

InitFinal == Start(Programs \cup ArrayPrograms)

NextFinal ==
    \/ \E jso \in Handles : SetCustom(jso)
    \/ Get(Root)
    \/ \E jso \in Handles : Put(jso)

SpecFinal == InitFinal /\ [][NextFinal]_vars

(* Layout: the caller serializes containers that hold empty containers, on
   both paths and with every layout flag *)

LayoutKinds == {"int", "object", "array"}

LayoutPrograms ==
    {[root |-> k, members |-> m] :
        k \in {"object", "array"},
        m \in {x \in UNION {[1..n -> LayoutKinds] : n \in 0..(MaxObj - 1)} :
                 Len(x) <= Len(KeySeq)}}

InitLayout == Start(LayoutPrograms)

LayoutFlags == SUBSET {"SPACED", "PRETTY", "PRETTY_TAB"}

NextLayout ==
    \/ \E flags \in LayoutFlags : ToJsonStringExt(Root, flags)
    \/ \E flags \in LayoutFlags : DumpExt(Root, flags, Enough)

SpecLayout == InitLayout /\ [][NextLayout]_vars

(* Release: the caller takes references on its containers and on their
   members, deletes entries and puts what it holds *)

NextRelease ==
    \/ \E jso \in Handles : Get(jso)
    \/ \E jso \in Handles : Put(jso)
    \/ \E key \in Keys : ObjectDel(Root, key)

SpecRelease == InitFinal /\ [][NextRelease]_vars

(* Both paths: the caller serializes Values of every kind, and containers
   of them, on the print-buffer path and, with every flag set, on the
   callback path *)

PathPrograms ==
    Programs \cup DoublePrograms \cup StringPrograms \cup ArrayPrograms

InitPaths == Start(PathPrograms)

NextPaths ==
    \/ ToJsonStringExt(Root, {})
    \/ \E flags \in FlagSets : DumpExt(Root, flags, Enough)

SpecPaths == InitPaths /\ [][NextPaths]_vars

(* Stored values: the caller adds new Values to its object, takes references
   on the stored ones, and adds a stored Value again under its key *)

\* no container holds a pointer to a Value that was freed
NoDangling ==
    \A a, b \in Handles :
        heap[a].st = "live" /\ b \in Children(heap, a) => heap[b].st = "live"

NextStore ==
    \/ \E key \in Keys : NoDangling /\ ObjectAddNew(Root, key)
    \/ \E jso \in Handles : NoDangling /\ Get(jso)
    \/ \E key \in Keys, ex \in BOOLEAN, opts \in {{}, {"KEY_IS_CONSTANT"}} :
          /\ NoDangling
          /\ ex \/ opts = {}
          /\ ObjectAddStored(Root, key, ex, opts)

SpecStore == Init /\ [][NextStore]_vars

----------------------------------------------------------------------------
(* Reference counting and destruction *)

\* the entries (container, position) of the live objects and arrays
ObjectSlots(h) ==
    UNION {{<<a, i>> : i \in 1..Len(h[a].c_object)} :
              a \in {x \in Handles : h[x].st = "live"}}

ArraySlots(h) ==
    UNION {{<<a, i>> : i \in 1..Len(h[a].c_array)} :
              a \in {x \in Handles : h[x].st = "live"}}

\* the references to jso the live containers hold
Holders(h, jso) ==
    Cardinality({s \in ObjectSlots(h) : h[s[1]].c_object[s[2]].v = jso})
    + Cardinality({s \in ArraySlots(h) : h[s[1]].c_array[s[2]] = jso})

\* the block b belongs to a live Value
BlockInUse(b) ==
    CASE b[1] \in {"jso", "pb", "str", "table", "array"} -> Live(heap, b[2])
      [] b[1] = "key" ->
             \E a \in Handles :
                 /\ Live(heap, a)
                 /\ \E i \in 1..Len(heap[a].c_object) :
                        /\ heap[a].c_object[i].kinst = b[2]
                        /\ ~heap[a].c_object[i].k_is_constant
      [] b[1] = "ds" ->
             \E a \in Handles : Live(heap, a) /\ heap[a].userdata.tok = b[2]

\* C1: a Value is destroyed exactly once, by the put that takes the last
\* reference and by no earlier one: the Value a constructor returned is
\* destroyed after n gets exactly when the caller has made n+1 puts, every
\* Value is destroyed exactly when no caller and no container holds it any
\* more, and every block still allocated belongs to a live Value.
C1_DestroyedOnLastPut ==
    /\ \A jso \in Handles :
          heap[jso].st # "unalloc" =>
            /\ ndel[jso] = IF held[jso] + Holders(heap, jso) = 0 THEN 1 ELSE 0
            /\ heap[jso].st = IF ndel[jso] = 0 THEN "live" ELSE "freed"
            /\ Live(heap, jso) =>
                  heap[jso].ref_count = held[jso] + Holders(heap, jso)
    /\ ndel[Root] = IF note[Root].puts = note[Root].gets + 1 THEN 1 ELSE 0
    /\ note[Root].puts <= note[Root].gets + 1
    /\ \A b \in mem : BlockInUse(b)
    /\ ret.op = "put" =>
          /\ ret.val = ndel[ret.jso]
          /\ HasEvent("generic_delete", ret.jso) <=> ret.val = 1

\* the root was shared once (n = 1) and its second put destroyed it, with
\* its members and its format buffer
C1_Witness ==
    /\ note[Root].gets = 1
    /\ note[Root].puts = 2
    /\ ret.op = "put" /\ ret.jso = Root /\ ret.val = 1
    /\ ndel[Root] = 1
    /\ HasEvent("object_delete", Root)
    /\ \E c \in Handles : c # Root /\ HasEvent("string_delete", c)
    /\ mem = {}

----------------------------------------------------------------------------
(* User data *)

\* the user_data/user_delete pair tok is installed on a live Value
Installed(tok) ==
    \E jso \in Handles :
        /\ Live(heap, jso)
        /\ heap[jso].user_delete # "NULL"
        /\ heap[jso].userdata.tok = tok

\* C2: the user_delete of an installed pair has run exactly once as soon as
\* the pair is no longer installed (the next set_serializer replaced it or
\* the Value was destroyed), and not at all while it is installed.
C2_UserDeleteOnce ==
    \A tok \in 1..MaxInstalls :
        udel[tok] = IF tok < nextTok /\ ~Installed(tok) THEN 1 ELSE 0

\* a Value without members had two pairs: one was replaced by the next
\* set_serializer, the other went with the final put
C2_Witness ==
    /\ \E t, u \in 1..MaxInstalls :
          /\ t # u
          /\ udel[t] = 1
          /\ udel[u] = 1
          /\ events = <<Ev("put", Root, 0), Ev("user_delete", Root, u),
                        Ev("generic_delete", Root, 0)>>
    /\ note[Root].gets = 1
    /\ ret.op = "put" /\ ret.jso = Root /\ ret.val = 1
    /\ heap[Root].st = "freed"

\* C3: a put that leaves the count above zero calls no user_delete and the
\* Value keeps its custom serializer and user data; a put on a Value with
\* a custom serializer calls its user_delete exactly when it is the put
\* that destroys the Value.
C3_PutKeepsUserData ==
    /\ \A jso \in Handles :
          Live(heap, jso) /\ note[jso].phase = "custom" =>
            /\ heap[jso].to_json_string = "custom_serializer"
            /\ heap[jso].user_delete = "freeit"
            /\ udel[heap[jso].userdata.tok] = 0
    /\ ret.op = "put" =>
          /\ ret.val = 0 =>
                /\ Live(heap, ret.jso)
                /\ \A i \in 1..Len(events) : events[i].e # "user_delete"
          /\ note[ret.jso].phase = "custom" =>
                (HasEvent("user_delete", ret.jso) <=> ret.val = 1)

\* get, put: the first put of a shared Value with a custom serializer
C3_Witness ==
    /\ note[Root].phase = "custom"
    /\ note[Root].gets = 1
    /\ note[Root].puts = 1
    /\ ret.op = "put" /\ ret.jso = Root /\ ret.val = 0
    /\ heap[Root].to_json_string = "custom_serializer"

----------------------------------------------------------------------------
(* Resetting the serializer *)

\* the statement of C4 as written: after the reset the default serializer
\* is back and the output is what it was before the custom serializer
C4_Original ==
    \A jso \in Handles :
        Live(heap, jso) /\ note[jso].phase = "reset" =>
          /\ heap[jso].to_json_string = DefaultSerializer(heap[jso].o_type)
          /\ Output(heap, jso) = note[jso].pre

\* C4: after fjson_object_set_serializer(v, NULL, NULL, NULL) the default
\* serializer of the kind is in place and no user data is left; the output
\* is what it was before the custom serializer was installed if v had the
\* default serializer of its kind then.
C4_ResetRestoresDefault ==
    \A jso \in Handles :
        Live(heap, jso) /\ note[jso].phase = "reset" =>
          /\ heap[jso].to_json_string = DefaultSerializer(heap[jso].o_type)
          /\ heap[jso].user_delete = "NULL"
          /\ heap[jso].userdata = NoUserdata
          /\ note[jso].preDefault => Output(heap, jso) = note[jso].pre

\* an object with members was customized, reset and serialized again
C4_Witness ==
    /\ note[Root].phase = "reset"
    /\ note[Root].preDefault
    /\ heap[Root].o_type = "object"
    /\ Len(heap[Root].c_object) = 2
    /\ ret.op = "to_json_string_ext" /\ ret.jso = Root /\ ret.arg = {"SPACED"} /\ ret.val = note[Root].pre

----------------------------------------------------------------------------
(* Serialization *)

\* the Value is what fjson_object_new_string_len(" \0 ", 3) made
IsBinary(h, jso) ==
    /\ Live(h, jso)
    /\ h[jso].o_type = "string"
    /\ h[jso].to_json_string = "fjson_object_string_to_json_string"
    /\ h[jso].c_string = [len |-> 3, data |-> <<32, 0, 32, 0>>]

\* C5: the string Value of the bytes [0x20, 0x00, 0x20] with length 3
\* serializes as quote, space, \u0000, space, quote.
C5_EmbeddedNul ==
    ret.op = "to_json_string_ext" /\ IsBinary(heap, ret.jso) =>
        ret.val = Str(<<"\"", " ", "\\", "u", "0", "0", "0", "0", " ", "\"">>)

\* C9: a serialization returns the text of the Value written into an empty
\* buffer, whatever an earlier call left in the format buffer, and a second
\* call with the same flags and no change in between returns the same bytes
\* as the first.
C9_SerializeTwice ==
    /\ \A jso \in Handles :
          Live(heap, jso) /\ note[jso].again => heap[jso].pb.buf = note[jso].prev
    /\ ret.op = "to_json_string_ext" =>
          /\ ret.val = heap[ret.jso].pb.buf
          /\ ret.val = call_to_json_string(heap, ret.jso, printbuf_new, 0, ret.arg)

\* an object with members was serialized twice with PRETTY
C9_Witness ==
    /\ note[Root].again
    /\ ret.op = "to_json_string_ext"
    /\ "PRETTY" \in ret.arg
    /\ heap[Root].to_json_string = "fjson_object_object_to_json_string"
    /\ Len(heap[Root].c_object) = 2
    /\ note[Root].prev = ret.val

\* the text of an object at a nesting level: '{', the members in order, a
\* ',' before every member but the first, one leading space if SPACED, the
\* quoted escaped key, ':' (with a space if SPACED), the value, and '}'
\* (after a space if SPACED).  PRETTY adds the line breaks and the
\* indentation: nl and ind are empty without it.
ObjectText(h, jso, level, flags) ==
    LET ents == h[jso].c_object
        nl == IF "PRETTY" \in flags THEN <<10>> ELSE <<>>
        ind(l) == IF "PRETTY" \notin flags THEN <<>>
                  ELSE IF "PRETTY_TAB" \in flags THEN Rep(9, l) ELSE Rep(32, 2 * l)
        sp == IF "SPACED" \in flags THEN <<32>> ELSE <<>>
        value(v) == IF v = NULL THEN Str(<<"n", "u", "l", "l">>)
                    ELSE call_to_json_string(h, v, printbuf_new, level + 1, flags)
        member(i) == (IF i > 1 THEN <<44>> \o nl ELSE <<>>)
                     \o sp \o ind(level + 1)
                     \o <<34>> \o fjson_escape_str(printbuf_new, ents[i].k \o <<0>>)
                     \o <<34, 58>> \o sp \o value(ents[i].v)
        members[i \in 0..Len(ents)] ==
            IF i = 0 THEN <<>> ELSE members[i - 1] \o member(i)
    IN <<123>> \o nl \o members[Len(ents)]
       \o (IF ents # <<>> THEN nl ELSE <<>>) \o ind(level) \o sp \o <<125>>

\* the object is {abc: 12, foo: "bar"}
IsAbcFoo(h, jso) ==
    /\ Live(h, jso)
    /\ h[jso].to_json_string = "fjson_object_object_to_json_string"
    /\ Len(h[jso].c_object) = 2
    /\ h[jso].c_object[1].k = KeyAbc
    /\ h[jso].c_object[2].k = KeyFoo
    /\ LET a == h[jso].c_object[1].v
           b == h[jso].c_object[2].v
       IN /\ a # NULL /\ b # NULL
          /\ h[a].to_json_string = "fjson_object_int_to_json_string"
          /\ h[a].c_int64 = Int64(12)
          /\ h[b].to_json_string = "fjson_object_string_to_json_string"
          /\ h[b].c_string = [len |-> 3, data |-> Str(<<"b", "a", "r">>) \o <<0>>]

\* C10: what the serialization of an object returned is the text of the
\* object, at every nesting level and for every flag set, and
\* {abc: 12, foo: "bar"} with SPACED alone gives { "abc": 12, "foo": "bar" }.
C10_ObjectFormat ==
    /\ ret.op = "to_json_string_ext"
         /\ heap[ret.jso].to_json_string = "fjson_object_object_to_json_string" =>
          ret.val = ObjectText(heap, ret.jso, 0, ret.arg)
    /\ \A jso \in Handles, level \in 0..MaxObj, flags \in FlagSets :
          Live(heap, jso)
            /\ heap[jso].to_json_string = "fjson_object_object_to_json_string" =>
              call_to_json_string(heap, jso, printbuf_new, level, flags)
                = ObjectText(heap, jso, level, flags)
    /\ ret.op = "to_json_string_ext" /\ IsAbcFoo(heap, ret.jso)
         /\ ret.arg = {"SPACED"} =>
          ret.val = Str(<<"{", " ", "\"", "a", "b", "c", "\"", ":", " ", "1", "2",
                          ",", " ", "\"", "f", "o", "o", "\"", ":", " ",
                          "\"", "b", "a", "r", "\"", " ", "}">>)

\* {abc: 12, foo: "bar"} was serialized with SPACED alone
C10_Witness ==
    /\ ret.op = "to_json_string_ext"
    /\ ret.jso = Root
    /\ ret.arg = {"SPACED"}
    /\ IsAbcFoo(heap, Root)
    /\ Len(ret.val) = 27

----------------------------------------------------------------------------
(* The object's table *)

NoDuplicateKey(ents) ==
    \A i, j \in 1..Len(ents) : ents[i].k = ents[j].k => i = j

\* heap h with the entries of jso put in the order of the keys in order
Ordered(h, jso, order) ==
    [h EXCEPT ![jso].c_object =
        [i \in 1..Len(order) |->
            CHOOSE e \in Range(h[jso].c_object) : e.k = order[i]]]

\* C6: iterating an object from begin to end, and its serialization, yield
\* the keys that are in it in the order of their first insertion, and
\* fjson_object_object_length is the number of these keys (for an object no
\* key of which was forced in twice with KEY_IS_NEW).
C6_InsertionOrder ==
    \A jso \in Handles :
        Live(heap, jso) /\ heap[jso].o_type = "object" /\ ~note[jso].forced =>
          /\ iter_walk(heap, jso, fjson_object_iter_begin(heap, jso))
               = note[jso].order
          /\ fjson_object_object_length(Cur, jso).rv
               = Cardinality(Range(note[jso].order))
          /\ call_to_json_string(heap, jso, printbuf_new, 0, {})
               = ObjectText(Ordered(heap, jso, note[jso].order), jso, 0, {})

\* foo was inserted before abc, and foo was then added again
C6_Witness ==
    /\ Live(heap, Root)
    /\ ~note[Root].forced
    /\ note[Root].order = <<KeyFoo, KeyAbc>>
    /\ ret.op = "object_add"
    /\ ret.arg = KeyFoo
    /\ iter_walk(heap, Root, fjson_object_iter_begin(heap, Root)) = <<KeyFoo, KeyAbc>>

PutCount(evs, id) ==
    Cardinality({i \in 1..Len(evs) : evs[i].e = "put" /\ evs[i].id = id})

\* C8: fjson_object_object_add with a key that is present puts the value
\* stored under it exactly once and stores the new value in the same entry:
\* key instance, position, length and the other entries are unchanged; with
\* a key that is absent it appends one entry with a copy of the key and
\* changes no other entry.
C8_AddFrame ==
    [][ret'.op = "object_add" =>
         LET jso == ret'.jso
             key == ret'.arg
             val == ret'.val
             old == heap[jso].c_object
             new == heap'[jso].c_object
             at == {i \in 1..Len(old) : old[i].k = key}
         IN IF at = {}
            THEN /\ Len(new) = Len(old) + 1
                 /\ SubSeq(new, 1, Len(old)) = old
                 /\ new[Len(new)].k = key
                 /\ new[Len(new)].v = val
                 /\ ~new[Len(new)].k_is_constant
                 /\ <<"key", new[Len(new)].kinst>> \in mem' \ mem
                 /\ \A i \in 1..Len(events') : events'[i].e # "put"
            ELSE \E i \in at :
                   /\ new = [old EXCEPT ![i].v = val]
                   /\ old[i].v # NULL => PutCount(events', old[i].v) = 1
                   /\ LET gone == IF old[i].v = NULL THEN {}
                                   ELSE ReachSet(heap, {old[i].v}, MaxObj)
                      IN \A c \in Handles \ gone : PutCount(events', c) = 0
      ]_vars

\* an add replaced the value of the first of two entries, and the put
\* destroyed the old value
C8_Witness ==
    /\ ret.op = "object_add"
    /\ Live(heap, ret.jso)
    /\ Len(heap[ret.jso].c_object) = 2
    /\ heap[ret.jso].c_object[1].k = ret.arg
    /\ heap[ret.jso].c_object[1].v = ret.val
    /\ Len(events) >= 2
    /\ events[1].e = "put"
    /\ events[2].e = "generic_delete"

----------------------------------------------------------------------------
(* Pretty printing with tabs *)

PrettyTabbed == {"SPACED", "PRETTY", "PRETTY_TAB"}

\* C11: {abc: 12, foo: "bar"} serialized with SPACED, PRETTY and PRETTY_TAB
\* gives '{', newline, tab, "abc": 12, ',', newline, tab, "foo": "bar",
\* newline, '}': one tab and nothing else before each entry, and the closing
\* brace directly after the last newline.
C11_PrettyTab ==
    ret.op = "to_json_string_ext" /\ IsAbcFoo(heap, ret.jso)
      /\ ret.arg = PrettyTabbed =>
        ret.val = Str(<<"{", "\n",
                        "\t", "\"", "a", "b", "c", "\"", ":", " ", "1", "2", ",", "\n",
                        "\t", "\"", "f", "o", "o", "\"", ":", " ",
                        "\"", "b", "a", "r", "\"", "\n", "}">>)

\* what the serializer returns for it: SPACED puts a space before the tab of
\* each entry and before the closing brace
C11_Returned ==
    ret.op = "to_json_string_ext" /\ IsAbcFoo(heap, ret.jso)
      /\ ret.arg = PrettyTabbed =>
        ret.val = Str(<<"{", "\n",
                        " ", "\t", "\"", "a", "b", "c", "\"", ":", " ", "1", "2", ",", "\n",
                        " ", "\t", "\"", "f", "o", "o", "\"", ":", " ",
                        "\"", "b", "a", "r", "\"", "\n", " ", "}">>)

----------------------------------------------------------------------------
(* Doubles *)

\* the bytes the callback was offered during the last call, in order
RECURSIVE Chunks(_)
Chunks(evs) ==
    IF evs = <<>> THEN <<>>
    ELSE (IF Head(evs).e = "func" THEN Head(evs).x ELSE <<>>) \o Chunks(Tail(evs))

\* the last call serialized a Value, on either path
Serialized == ret.op \in {"to_json_string_ext", "dump_ext"}

\* the text the last serialization produced
SerText == IF ret.op = "dump_ext" THEN Chunks(events) ELSE ret.val

\* a double that prints its value (no preserved text)
IsPlainDouble(h, jso) ==
    /\ Live(h, jso)
    /\ h[jso].o_type = "double"
    /\ h[jso].to_json_string = "fjson_object_double_to_json_string"
    /\ h[jso].c_double.source = <<>>

\* NaN, Infinity, -Infinity or the "%.17g" text
Token(d) ==
    CASE d.cls = "nan" -> Str(<<"N", "a", "N">>)
      [] d.cls = "inf" -> Str(<<"I", "n", "f", "i", "n", "i", "t", "y">>)
      [] d.cls = "-inf" -> Str(<<"-", "I", "n", "f", "i", "n", "i", "t", "y">>)
      [] OTHER -> d.g17

\* the text with ".0" appended if it has neither a decimal point nor an
\* exponent
WithPointZero(d) ==
    IF d.cls = "finite" /\ 46 \notin Range(d.g17) /\ 101 \notin Range(d.g17)
    THEN d.g17 \o Str(<<".", "0">>)
    ELSE Token(d)

\* C12: a finite double without a preserved text serializes, on both paths,
\* as its "%.17g" text with ".0" appended exactly when the text has neither
\* a decimal point nor an exponent (1.0 gives 1.0, 1e+20 stays 1e+20); NaN
\* and the infinities give NaN, Infinity and -Infinity.
C12_PointZero ==
    Serialized /\ IsPlainDouble(heap, ret.jso) /\ "NOZERO" \notin ret.arg =>
        SerText = WithPointZero(heap[ret.jso].c_double)

\* what the two paths produce: the print-buffer path never appends ".0",
\* the callback path appends it to every integral value, exponent or not
C12_Returned ==
    Serialized /\ IsPlainDouble(heap, ret.jso) /\ "NOZERO" \notin ret.arg =>
        LET d == heap[ret.jso].c_double
        IN SerText = IF ret.op = "dump_ext" /\ d.cls = "finite" /\ d.integral
                     THEN d.g17 \o Str(<<".", "0">>)
                     ELSE Token(d)

\* the text the path formats before it trims
Formatted(op, d) ==
    IF op = "dump_ext" /\ d.cls = "finite" /\ d.integral
    THEN d.g17 \o Str(<<".", "0">>)
    ELSE Token(d)

\* text t without the trailing zeros of its fractional part, one zero kept
\* when the fractional part is all zeros; what follows the fractional
\* digits (an exponent) stays
Trimmed(t) ==
    LET p == strchr(t, 46)
        digits == {e \in p..Len(t) : \A i \in (p + 1)..e : t[i] \in 48..57}
        fracEnd == CHOOSE e \in digits : \A x \in digits : x <= e
        nonzero == {i \in (p + 1)..fracEnd : t[i] # 48}
        keepEnd == IF nonzero # {} THEN CHOOSE i \in nonzero : \A x \in nonzero : x <= i
                   ELSE IF fracEnd > p THEN p + 1 ELSE p
    IN IF p = 0 THEN t
       ELSE SubSeq(t, 1, keepEnd) \o SubSeq(t, fracEnd + 1, Len(t))

\* C13: with NO_TRAILING_ZERO a double's text that has a decimal point is
\* emitted without the trailing zeros of its fractional part (one zero kept
\* if it is all zeros), nothing else being removed, in particular no digit
\* of an exponent; a text without a decimal point is emitted unchanged.
C13_NoTrailingZero ==
    Serialized /\ IsPlainDouble(heap, ret.jso) /\ "NOZERO" \in ret.arg =>
        SerText = Trimmed(Formatted(ret.op, heap[ret.jso].c_double))

----------------------------------------------------------------------------
(* String escaping *)

\* the two lowercase hex digits of a byte
HexDigit(n) == IF n < 10 THEN 48 + n ELSE 87 + n

\* the image of one byte in JSON text
Image(b) ==
    CASE b = 8 -> Str(<<"\\", "b">>)
      [] b = 10 -> Str(<<"\\", "n">>)
      [] b = 13 -> Str(<<"\\", "r">>)
      [] b = 9 -> Str(<<"\\", "t">>)
      [] b = 12 -> Str(<<"\\", "f">>)
      [] b = 34 -> Str(<<"\\", "\"">>)
      [] b = 92 -> Str(<<"\\", "\\">>)
      [] b = 47 -> Str(<<"\\", "/">>)
      [] b \in 1..31 /\ b \notin {8, 9, 10, 12, 13} ->
             Str(<<"\\", "u", "0", "0">>) \o <<HexDigit(b \div 16), HexDigit(b % 16)>>
      [] OTHER -> <<b>>

RECURSIVE Images(_)
Images(str) == IF str = <<>> THEN <<>> ELSE Image(Head(str)) \o Images(Tail(str))

\* a string Value with its own serializer and no NUL byte in its content
IsNulFreeString(h, jso) ==
    /\ Live(h, jso)
    /\ h[jso].to_json_string = "fjson_object_string_to_json_string"
    /\ strlen(h[jso].c_string.data) = h[jso].c_string.len

\* C14: the escaped form of a NUL-free byte string is the concatenation, in
\* order, of the images of its bytes: the short escapes for backspace,
\* newline, carriage return, tab, form feed, quote, backslash and slash,
\* \u00XY for the other bytes 0x01..0x1F, and the byte itself for every
\* other byte, 0x7F and 0x80..0xFF included.
C14_EscapeImages ==
    Serialized /\ IsNulFreeString(heap, ret.jso) =>
        SerText = <<34>> \o Images(SubSeq(heap[ret.jso].c_string.data, 1,
                                          heap[ret.jso].c_string.len)) \o <<34>>

\* the statement holds on the print-buffer path for the strings of bytes
\* below 128
C14_PrintBufferAscii ==
    ret.op = "to_json_string_ext" /\ IsNulFreeString(heap, ret.jso)
      /\ HighBytes(heap) = {} =>
        SerText = <<34>> \o Images(SubSeq(heap[ret.jso].c_string.data, 1,
                                          heap[ret.jso].c_string.len)) \o <<34>>

----------------------------------------------------------------------------
(* Nested serializers *)

\* the text of an array at a nesting level, each element by its own
\* serializer
ArrayText(h, jso, level, flags) ==
    LET arr == h[jso].c_array
        nl == IF "PRETTY" \in flags THEN <<10>> ELSE <<>>
        ind(l) == IF "PRETTY" \notin flags THEN <<>>
                  ELSE IF "PRETTY_TAB" \in flags THEN Rep(9, l) ELSE Rep(32, 2 * l)
        sp == IF "SPACED" \in flags THEN <<32>> ELSE <<>>
        value(v) == IF v = NULL THEN Str(<<"n", "u", "l", "l">>)
                    ELSE call_to_json_string(h, v, printbuf_new, level + 1, flags)
        element(i) == (IF i > 1 THEN <<44>> \o nl ELSE <<>>)
                      \o sp \o ind(level + 1) \o value(arr[i])
        elements[i \in 0..Len(arr)] ==
            IF i = 0 THEN <<>> ELSE elements[i - 1] \o element(i)
    IN <<91>> \o nl \o elements[Len(arr)]
       \o (IF arr # <<>> THEN nl ELSE <<>>) \o ind(level) \o sp \o <<93>>

\* the text of a container whose values are emitted by their own serializers
ContainerText(h, jso, flags) ==
    IF h[jso].o_type = "array" THEN ArrayText(h, jso, 0, flags)
    ELSE ObjectText(h, jso, 0, flags)

IsContainer(h, jso) ==
    /\ Live(h, jso)
    /\ h[jso].to_json_string = DefaultSerializer(h[jso].o_type)
    /\ h[jso].o_type \in {"object", "array"}

\* C15: on both paths the text of a container has every nested value as
\* that value's own serializer emits it: a custom serializer installed on
\* a nested value determines its text in the parent's output.
C15_NestedSerializer ==
    Serialized /\ IsContainer(heap, ret.jso) =>
        SerText = ContainerText(heap, ret.jso, ret.arg)

\* the statement holds on the print-buffer path
C15_PrintBuffer ==
    ret.op = "to_json_string_ext" /\ IsContainer(heap, ret.jso) =>
        SerText = ContainerText(heap, ret.jso, ret.arg)

\* the callback path emits a nested Value with a custom serializer as the
\* default of its kind would
C15_CallbackDefault ==
    ret.op = "dump_ext" /\ IsContainer(heap, ret.jso) =>
        LET plain == [a \in Handles |->
                         IF heap[a].st = "live"
                         THEN [heap[a] EXCEPT !.to_json_string =
                                                  DefaultSerializer(heap[a].o_type)]
                         ELSE heap[a]]
        IN SerText = ContainerText(plain, ret.jso, ret.arg)

----------------------------------------------------------------------------
(* Null handles *)

\* the operations that test the handle before they use it
CheckedOps ==
    {"get", "put", "is_type", "get_type", "to_json_string_ext", "dump_ext",
     "object_get_ex", "object_get", "get_object", "get_boolean", "get_int",
     "get_int64", "get_double", "get_string", "get_string_len", "get_array"}

\* the last call returned what is documented for a null handle: no Value,
\* 0, 0.0, false, the kind null, the text null (and its four bytes written);
\* an operation that returns nothing has done nothing
NullDefault ==
    CASE ret.op \in {"get", "object_get", "get_object", "get_string", "get_array",
                     "array_get_idx"} -> ret.val = NULL
      [] ret.op \in {"put", "get_boolean", "get_string_len", "object_length",
                     "array_length"} -> ret.val = 0
      [] ret.op = "is_type" -> ret.val = 1
      [] ret.op = "get_type" -> ret.val = "null"
      [] ret.op = "to_json_string_ext" -> ret.val = Str(<<"n", "u", "l", "l">>)
      [] ret.op = "dump_ext" -> ret.val = 4
      [] ret.op = "object_get_ex" -> ret.val = [found |-> FALSE, value |-> NULL]
      [] ret.op \in {"get_int", "get_int64"} -> ret.val = Int64(0)
      [] ret.op = "get_double" -> ret.val = NoDouble
      [] OTHER -> TRUE

\* C16: every public operation that takes a Value handle accepts a null
\* handle: the call does not dereference it (the process is not killed),
\* returns the documented default and leaves every Value as it was.
C16_NullHandle ==
    ret.jso = NULL => ~Killed /\ NullDefault

\* C16, for the operations that test the handle: the accessors, get, put,
\* the lookups and both serializers return the documented default for a
\* null handle, without a fault.
C16_CheckedOps ==
    ret.jso = NULL /\ ret.op \in CheckedOps => ~Killed /\ NullDefault

\* C16, the rest: set_serializer, object_add, object_length, object_del,
\* array_length, array_add and array_get_idx read through the null handle.
C16_UncheckedOps ==
    ret.jso = NULL /\ ret.op \notin CheckedOps => Killed

----------------------------------------------------------------------------
(* Integers *)

\* an int64_t brought into the range of int32_t
Saturated(n) ==
    IF Less(n, INT32_MIN) THEN INT32_MIN
    ELSE IF Less(INT32_MAX, n) THEN INT32_MAX
    ELSE n

\* what fjson_object_get_int64 returns for the Value and on the build of
\* the last call
AsInt64 == fjson_object_get_int64([Cur EXCEPT !.cast = ret.arg], ret.jso).rv

\* the last call read a double that int32_t cannot hold
BeyondInt32 ==
    /\ heap[ret.jso].o_type = "double"
    /\ ~Holds(INT32_MIN, INT32_MAX, heap[ret.jso].c_double)

\* C17: for a Value of every kind, fjson_object_get_int returns what
\* fjson_object_get_int64 returns, saturated to [INT32_MIN, INT32_MAX].
C17_GetIntSaturates ==
    ret.op = "get_int" => ret.val = Saturated(AsInt64)

\* C17, but for the doubles beyond the int32_t range: booleans, ints,
\* strings (numeric or not, in or out of range), containers and the other
\* doubles read as the int64_t, saturated.
C17_ButLargeDoubles ==
    ret.op = "get_int" /\ ~BeyondInt32 => ret.val = Saturated(AsInt64)

\* C17, on a build whose conversions saturate: there every Value reads as
\* the int64_t, saturated.
C17_Saturating ==
    ret.op = "get_int" /\ ret.arg = "saturating" => ret.val = Saturated(AsInt64)

----------------------------------------------------------------------------
(* Allocation failure *)

\* an allocation of the last call, a constructor call, failed
AllocFailed == ret.op = "construct" /\ ret.arg.fail \in 1..ret.arg.allocs

\* the payload storage of a Value is there: the table of an object, the
\* list of an array, the heap buffer of a long string
HasStorage(jso) ==
    CASE heap[jso].o_type = "object" -> <<"table", jso>> \in mem
      [] heap[jso].o_type = "array" ->
             heap[jso].has_list /\ <<"array", jso>> \in mem
      [] heap[jso].o_type = "string" ->
             heap[jso].c_string.len >= LEN_DIRECT_STRING_DATA
                 => <<"str", jso>> \in mem
      [] OTHER -> TRUE

\* the last constructor call did on failure what is due: NULL returned,
\* errno ENOMEM, nothing it allocated left behind; and what it returned
\* is a live Value with its storage
FailsClean ==
    /\ AllocFailed => /\ ret.val = NULL
                      /\ ret.arg.errno = ENOMEM
                      /\ \A b \in mem : BlockInUse(b)
    /\ ret.val # NULL => Live(heap, ret.val) /\ HasStorage(ret.val)

\* C18: every typed constructor returns null when an allocation it performs
\* fails, having released what it had allocated, and never returns a Value
\* whose payload storage is missing.
C18_AllocationFailure ==
    ret.op = "construct" => FailsClean

\* C18, but for fjson_object_new_array: the other constructors return null
\* on every allocation failure, errno ENOMEM, with nothing left allocated,
\* and the Values they return have their storage.
C18_ButArray ==
    ret.op = "construct" /\ ret.arg.kind # "array" => FailsClean

\* C18, fjson_object_new_array: when the allocation of the list fails the
\* array is returned all the same, without its list.
C18_ArrayWithoutList ==
    AllocFailed /\ ret.arg.kind = "array" /\ ret.arg.fail = 2
        => Live(heap, ret.val) /\ ~heap[ret.val].has_list

----------------------------------------------------------------------------
(* The callback path *)

\* the sum of what the callback returned during the last call
RECURSIVE Returned(_)
Returned(evs) ==
    IF evs = <<>> THEN 0
    ELSE (IF Head(evs).e = "func" THEN Head(evs).id ELSE 0) + Returned(Tail(evs))

\* the chunks the callback was offered, one by one
Offered(evs) == [i \in 1..Len(evs) |-> evs[i].x]

\* the callback calls of a dump of the same Value with the same flags into
\* a sink that takes everything
Unhindered == fjson_object_dump_ext(Cur, ret.jso, ret.arg, Enough).events

----------------------------------------------------------------------------
(* Threads *)

\* the threads at a place of their get ... put sequence
At(places) == {t \in Threads : thr[t] \in places}

\* C20: under every interleaving of threads that get and later put the
\* shared Value, no increment and no decrement is lost (the count is the
\* number of threads that hold a reference), the count is not zero while a
\* thread holds a reference, and the destructor runs once, in the one put
\* that brought the count to zero: not before, and when all threads are
\* through the Value is destroyed.
C20_AtomicCount ==
    /\ Live(heap, Root) => heap[Root].ref_count = Cardinality(At({"holding"}))
    /\ At({"holding"}) # {} => Live(heap, Root) /\ heap[Root].ref_count > 0
    /\ ndel[Root] = Cardinality(At({"destroyed"}))
    /\ Cardinality(At({"last", "destroyed"})) <= 1
    /\ At({"last"}) # {} => Live(heap, Root) /\ heap[Root].ref_count = 0
    /\ At({"holding", "last"}) = {} => ndel[Root] = 1 /\ mem = {}

\* both other threads took and gave back a reference, the caller gave back
\* its own before the last of them, and that thread's put destroyed the Value
C20_Witness ==
    /\ thr[Caller] = "done"
    /\ \A t \in Threads \ {Caller} : thr[t] \in {"done", "destroyed"}
    /\ \E t \in Threads \ {Caller} : thr[t] = "destroyed"
    /\ ndel[Root] = 1
    /\ heap[Root].st = "freed"

----------------------------------------------------------------------------
(* What get and put return *)

\* the call ran the finalizers of jso: the kind destructor got as far as
\* the generic destructor
Finalized(log, jso) ==
    \E i \in 1..Len(log) : log[i].e = "generic_delete" /\ log[i].id = jso

\* C21: fjson_object_put returns 0 for a null handle, 0 when the count it
\* decremented is still above zero, and 1 exactly when the call ran the
\* finalizers; fjson_object_get returns NULL for a null handle and otherwise
\* its argument, with the count of that Value raised by one and nothing else
\* changed.
C21_GetPutReturn ==
    [][/\ ret'.op = "put" =>
            IF ret'.jso = NULL
            THEN ret'.val = 0 /\ heap' = heap /\ events' = <<>>
            ELSE LET jso == ret'.jso
                     cnt == heap[jso].ref_count - 1
                 IN /\ ret'.val \in {0, 1}
                    /\ cnt > 0 => /\ ret'.val = 0
                                  /\ heap' = [heap EXCEPT ![jso].ref_count = cnt]
                    /\ ret'.val = 1 <=> Finalized(events', jso)
                    /\ ret'.val = 1 <=> cnt = 0
       /\ ret'.op = "get" =>
            IF ret'.jso = NULL
            THEN ret'.val = NULL /\ heap' = heap /\ events' = <<>>
            ELSE /\ ret'.val = ret'.jso
                 /\ heap' = [heap EXCEPT ![ret'.jso].ref_count = @ + 1]
      ]_vars

\* the caller took a second reference to a Value; its first put returned 0
\* and this one, the second, returned 1
C21_Witness ==
    /\ ret.op = "put"
    /\ ret.jso # NULL
    /\ ret.val = 1
    /\ note[ret.jso].gets = 1
    /\ note[ret.jso].puts = 2

----------------------------------------------------------------------------
(* The order of the elements of an array *)

\* the token null
NullToken == Str(<<"n", "u", "l", "l">>)

\* the text of the element at index i (0-based) of array jso: null for the
\* null sentinel, else what the serializer of the element emits
ElementText(h, jso, i, flags) ==
    LET val == h[jso].c_array[i + 1]
    IN IF val = NULL THEN NullToken
       ELSE call_to_json_string(h, val, printbuf_new, 1, flags)

\* what stands before the element at index i: from the second on a comma,
\* then the line break and indentation of PRETTY and the space of SPACED
Separator(i, flags) ==
    (IF i > 0 THEN <<44>> ELSE <<>>)
    \o (IF i > 0 /\ "PRETTY" \in flags THEN <<10>> ELSE <<>>)
    \o (IF "SPACED" \in flags THEN <<32>> ELSE <<>>)
    \o (IF "PRETTY" \notin flags THEN <<>>
        ELSE IF "PRETTY_TAB" \in flags THEN <<9>> ELSE <<32, 32>>)

\* the elements 0..n-1 with their separators, in ascending order
RECURSIVE ElementsUpTo(_, _, _, _)
ElementsUpTo(h, jso, n, flags) ==
    IF n = 0 THEN <<>>
    ELSE ElementsUpTo(h, jso, n - 1, flags)
         \o Separator(n - 1, flags) \o ElementText(h, jso, n - 1, flags)

\* text is: an opening bracket part, the elements in order, a closing part
\* free of commas
InOrder(text, h, jso, flags) ==
    LET body == ElementsUpTo(h, jso, Len(h[jso].c_array), flags)
        open == IF "PRETTY" \in flags THEN <<91, 10>> ELSE <<91>>
        rest == SubSeq(text, Len(open) + Len(body) + 1, Len(text))
    IN /\ Len(text) > Len(open) + Len(body)
       /\ SubSeq(text, 1, Len(open)) = open
       /\ SubSeq(text, Len(open) + 1, Len(open) + Len(body)) = body
       /\ rest[Len(rest)] = 93
       /\ \A k \in 1..Len(rest) : rest[k] # 44

\* C22: the serialization of an array is its elements 0..length-1 in
\* ascending index order, each once, a comma between neighbours, with the
\* token null at every position that holds the null sentinel.
C22_ArrayOrder ==
    ret.op = "to_json_string_ext"
      /\ heap[ret.jso].to_json_string = "fjson_object_array_to_json_string" =>
        InOrder(ret.val, heap, ret.jso, ret.arg)

\* an array with a gap before its last element was serialized: put_idx
\* beyond the end left the null sentinel in between
C22_Witness ==
    /\ ret.op = "to_json_string_ext"
    /\ heap[ret.jso].to_json_string = "fjson_object_array_to_json_string"
    /\ LET arr == heap[ret.jso].c_array
       IN /\ Len(arr) = MaxIdx + 1
          /\ arr[1] # NULL
          /\ arr[MaxIdx] = NULL
          /\ arr[MaxIdx + 1] # NULL

----------------------------------------------------------------------------
(* Walking an object with an iterator *)

\* C23: on an object of k entries that is not changed meanwhile, the iterator
\* that fjson_object_iter_begin gave equals the end iterator after exactly k
\* calls of fjson_object_iter_next and after no fewer, and after i < k calls
\* its name and value are the key and the value of the entry that was
\* inserted as number i + 1 of the entries of the object
C23_IterationOrder ==
    ret.op \in IterOps =>
        LET jso == ret.jso
            k == Len(heap[jso].c_object)
            i == ret.arg
            atEnd == fjson_object_iter_equal(ret.val,
                         fjson_object_iter_end(heap, jso))
        IN /\ Len(note[jso].order) = k
           /\ i <= k
           /\ atEnd <=> i = k
           /\ i < k =>
                 /\ fjson_object_iter_peek_name(heap, jso, ret.val)
                        = note[jso].order[i + 1]
                 /\ fjson_object_iter_peek_value(heap, jso, ret.val)
                        = fjson_object_object_get(Cur, jso,
                              note[jso].order[i + 1]).rv

\* the iterator of an object of two entries, whose second entry was inserted
\* after an entry was deleted, reached the end with its second step
C23_Witness ==
    /\ ret.op = "iter_next"
    /\ ret.arg = 2
    /\ Len(heap[ret.jso].c_object) = 2
    /\ fjson_object_iter_equal(ret.val, fjson_object_iter_end(heap, ret.jso))
    /\ heap[ret.jso].c_object[1].v # NULL

----------------------------------------------------------------------------
(* The serializer pointer *)

\* enum fjson_type
fjson_type == {"null", "boolean", "double", "int", "object", "array", "string"}

\* the functions a _to_json_string pointer of the program may point to
Serializers ==
    {DefaultSerializer(k) : k \in fjson_type \ {"null"}}
        \cup {"fjson_object_userdata_to_json_string", "custom_serializer"}

\* C24: after any sequence of constructor calls and of
\* fjson_object_set_serializer calls, installs and resets in any order, the
\* _to_json_string pointer of every Value is not NULL: it is the default
\* serializer of the kind of the Value or a function that was installed, so
\* that no serialization calls through a null pointer
C24_SerializerNeverNull ==
    \A jso \in Handles :
        heap[jso].st = "live" =>
            /\ heap[jso].o_type \in fjson_type \ {"null"}
            /\ heap[jso].to_json_string # "NULL"
            /\ heap[jso].to_json_string \in Serializers
            /\ note[jso].phase = "reset" =>
                  heap[jso].to_json_string = DefaultSerializer(heap[jso].o_type)

\* the serializer of a string member was installed and reset, and the root
\* was then serialized through it
C24_Witness ==
    /\ ret.op = "to_json_string_ext"
    /\ \E jso \in Handles \ {Root} :
          /\ Live(heap, jso)
          /\ heap[jso].o_type = "string"
          /\ note[jso].phase = "reset"
          /\ Reach(heap, Root, jso)

----------------------------------------------------------------------------
(* Doubles built with their text *)

\* the text the caller passed to fjson_object_new_double_s with the double d
TextOf(d) ==
    IF d = Double01 THEN Str(<<"0", ".", "1">>)
    ELSE Str(<<"1", ".", "0", "0", "0">>)

\* jso is as fjson_object_new_double_s returned it
HasText(h, jso) ==
    /\ Live(h, jso)
    /\ h[jso].to_json_string = "fjson_object_userdata_to_json_string"

\* the copy of the text that fjson_object_new_double_s made for the root is
\* allocated
TextAllocated == <<"ds", 1>> \in mem

\* the copy of the text is allocated while it is the user data of the live
\* root, and fjson_object_free_userdata ran on it once when it no longer is
FreedOnce ==
    IF HasText(heap, Root)
    THEN TextAllocated /\ udel[1] = 0 /\ heap[Root].userdata.tok = 1
    ELSE ~TextAllocated /\ udel[1] = 1

\* C25: a double built by fjson_object_new_double_s(d, text) serializes as
\* the bytes of text with every flag set, whatever d is, and the copy of the
\* text is freed exactly once, when the serializer is replaced or the Value
\* is destroyed
C25_PreservedText ==
    /\ FreedOnce
    /\ Serialized /\ HasText(heap, Root) =>
          SerText = TextOf(heap[Root].c_double)

\* fjson_object_to_json_string_ext returns the text of a double built by
\* fjson_object_new_double_s with every flag set, and the copy of the text is
\* freed exactly once
C25_PrintBufferText ==
    /\ FreedOnce
    /\ ret.op = "to_json_string_ext" /\ HasText(heap, Root) =>
          ret.val = TextOf(heap[Root].c_double)

\* fjson_object_dump_ext formats the value of a double built by
\* fjson_object_new_double_s as it formats every double
C25_CallbackFormats ==
    ret.op = "dump_ext" /\ HasText(heap, Root) =>
        /\ SerText # TextOf(heap[Root].c_double)
        /\ SerText = Chunks(fjson_object_dump_ext(
               [Cur EXCEPT !.heap[Root].to_json_string =
                               "fjson_object_double_to_json_string"],
               Root, ret.arg, Enough).events)

----------------------------------------------------------------------------
(* The order of the steps of a destruction *)

\* the events of evs that are about id, in order
RECURSIVE Own(_, _)
Own(evs, id) ==
    IF evs = <<>> THEN <<>>
    ELSE (IF Head(evs).id = id THEN <<Head(evs)>> ELSE <<>>) \o Own(Tail(evs), id)

\* the event the kind destructor of a Value logs, for the kinds that have one
KindEvent(h, id) ==
    CASE h[id].delete = "fjson_object_object_delete" -> <<Ev("object_delete", id, 0)>>
      [] h[id].delete = "fjson_object_array_delete" -> <<Ev("array_delete", id, 0)>>
      [] h[id].delete = "fjson_object_string_delete" -> <<Ev("string_delete", id, 0)>>
      [] OTHER -> <<>>

\* the steps of the destruction of the Value id of the heap h, in order
Steps(h, id) ==
    <<Ev("put", id, 0)>>
        \o (IF h[id].user_delete # "NULL"
            THEN <<Ev("user_delete", id, h[id].userdata.tok)>> ELSE <<>>)
        \o KindEvent(h, id)
        \o <<Ev("generic_delete", id, 0)>>

\* the Values that the container id holds
Contained(h, id) ==
    ({h[id].c_object[i].v : i \in 1..Len(h[id].c_object)}
        \cup Range(h[id].c_array)) \ {NULL}

\* what the destructors of id free
Blocks(id) ==
    {<<"table", id>>, <<"array", id>>, <<"str", id>>, <<"pb", id>>, <<"jso", id>>}

\* the index of the only event e of id in evs
StepAt(evs, e, id) == CHOOSE i \in 1..Len(evs) : evs[i].e = e /\ evs[i].id = id

\* C26: on the put that brings the count of a Value to zero the steps run in
\* this order, each once: user_delete if one is set, before anything of the
\* Value is released; the kind destructor, which puts the contained Values
\* and frees the heap string or the container; the generic destructor, which
\* frees the format buffer and the header. Nothing of the call touches the
\* Value after its generic destructor.
C26_FinalizerOrder ==
    [][\A id \in Handles :
          (\E i \in 1..Len(events') : events'[i] = Ev("generic_delete", id, 0)) =>
             /\ Own(events', id) = Steps(heap, id)
             /\ \A m \in Contained(heap, id) \ {NULL} :
                   \E i \in 1..Len(events') :
                      /\ events'[i].e = "put" /\ events'[i].id = m
                      /\ i > StepAt(events', "put", id)
                      /\ heap[id].user_delete # "NULL" =>
                            i > StepAt(events', "user_delete", id)
                      /\ i < StepAt(events', "generic_delete", id)
                      /\ KindEvent(heap, id) # <<>>
                      /\ i > StepAt(events', KindEvent(heap, id)[1].e, id)
             /\ heap'[id] = Freed
             /\ mem' \cap Blocks(id) = {}
             /\ ndel'[id] = 1
      ]_vars

\* the last put of an object with a user_delete destroyed it and its two
\* members, one of which had a user_delete too
C26_Witness ==
    /\ ret.op = "put" /\ ret.jso = Root /\ ret.val = 1
    /\ Len(events) >= 10
    /\ events[2].e = "user_delete" /\ events[2].id = Root
    /\ events[3].e = "object_delete"
    /\ \E i \in 4..Len(events) : events[i].e = "user_delete"
    /\ events[Len(events)] = Ev("generic_delete", Root, 0)

----------------------------------------------------------------------------
(* The closing bracket of an empty container *)

\* the positions of text where a container opens with PRETTY: a bracket and
\* the newline after it
Opens(text) ==
    {i \in 1..(Len(text) - 1) : text[i] \in {123, 91} /\ text[i + 1] = 10}

\* the first position of text after i that holds no space and no tab
RECURSIVE PastBlanks(_, _)
PastBlanks(text, i) ==
    IF i + 1 <= Len(text) /\ text[i + 1] \in {32, 9}
    THEN PastBlanks(text, i + 1) ELSE i + 1

\* the containers of text that are empty: after the newline of the opening
\* come blanks and the closing bracket (an entry starts with a quote, a
\* digit or a bracket that opens)
EmptyOpens(text) ==
    {i \in Opens(text) : text[PastBlanks(text, i + 1)] \in {125, 93}}

\* the number of blanks between the newline of the opening at i and the
\* closing bracket
Blanks(text, i) == PastBlanks(text, i + 1) - (i + 2)

\* the space SPACED puts in front of a closing bracket
ClosingSpace(flags) == IF "SPACED" \in flags THEN 1 ELSE 0

\* C27: with PRETTY an empty object or array nested at a level >= 1
\* serializes as the opening bracket, one newline and the closing bracket (a
\* space before it if SPACED): no indentation precedes the closing bracket
\* of a container without entries
C27_EmptyContainer ==
    Serialized /\ "PRETTY" \in ret.arg =>
        \A i \in EmptyOpens(SerText) : Blanks(SerText, i) = ClosingSpace(ret.arg)

\* with PRETTY both paths indent the closing bracket of an empty container to
\* its level as they do that of a container with entries: a tab or two
\* spaces in front of the closing of an empty member of the root, nothing in
\* front of the closing of an empty root
C27_EmptyIndented ==
    Serialized /\ "PRETTY" \in ret.arg =>
        /\ \A i \in EmptyOpens(SerText) :
              Blanks(SerText, i) =
                  ClosingSpace(ret.arg)
                    + (IF i = 1 THEN 0
                       ELSE IF "PRETTY_TAB" \in ret.arg THEN 1 ELSE 2)
        /\ Cardinality(EmptyOpens(SerText)) =
              Cardinality({jso \in Handles :
                  /\ Live(heap, jso)
                  /\ heap[jso].o_type \in {"object", "array"}
                  /\ heap[jso].c_object = <<>> /\ heap[jso].c_array = <<>>})
        /\ ret.op = "to_json_string_ext" => SerText = ContainerText(heap, Root, ret.arg)

----------------------------------------------------------------------------
(* The release of the contained values *)

\* how often the container id of the heap h holds the Value m
HoldsTimes(h, id, m) ==
    Cardinality({i \in 1..Len(h[id].c_object) : h[id].c_object[i].v = m})
        + Cardinality({i \in 1..Len(h[id].c_array) : h[id].c_array[i] = m})

\* the call that led from heap h to heap g put m once: m was destroyed if
\* that was its last reference, and is as it was with one reference less if
\* not
PutOnce(h, g, evs, m) ==
    /\ PutCount(evs, m) = 1
    /\ IF h[m].ref_count = 1
       THEN g[m] = Freed
       ELSE g[m] = [h[m] EXCEPT !.ref_count = @ - 1] /\ Live(g, m)

\* the value the object jso of heap h holds under key, NULL if none
Stored(h, jso, key) ==
    IF \E i \in 1..Len(h[jso].c_object) : h[jso].c_object[i].k = key
    THEN h[jso].c_object[
             CHOOSE i \in 1..Len(h[jso].c_object) : h[jso].c_object[i].k = key].v
    ELSE NULL

\* C28: the destruction of an object or array puts each Value it holds
\* exactly once, and fjson_object_object_del puts the value of the entry it
\* removes exactly once and no other: a contained Value without another
\* reference is destroyed, one on which the caller holds a reference of its
\* own survives unchanged but for its count, which is one lower
C28_ContainedReleasedOnce ==
    [][/\ \A id \in Handles :
             (\E i \in 1..Len(events') : events'[i] = Ev("generic_delete", id, 0)) =>
                 \A m \in Handles :
                     HoldsTimes(heap, id, m) > 0 =>
                         /\ HoldsTimes(heap, id, m) = 1
                         /\ PutOnce(heap, heap', events', m)
                         /\ held[m] >= 1 =>
                               Live(heap', m) /\ heap'[m].ref_count = heap[m].ref_count - 1
       /\ ret'.op = "object_del" =>
             \A m \in Handles \ {ret'.jso} :
                 IF m = Stored(heap, ret'.jso, ret'.arg)
                 THEN /\ PutOnce(heap, heap', events', m)
                      /\ held[m] >= 1 =>
                            Live(heap', m) /\ heap'[m].ref_count = heap[m].ref_count - 1
                 ELSE PutCount(events', m) = 0 /\ heap'[m] = heap[m]
      ]_vars

\* the last put of a container destroyed it and one of the two Values it
\* held; the other, which the caller holds a reference to, is live with
\* count 1
C28_Witness ==
    /\ ret.op = "put" /\ ret.jso = Root /\ ret.val = 1
    /\ heap[Root] = Freed
    /\ \E m, n \in Handles \ {Root} :
          /\ m # n
          /\ PutCount(events, m) = 1 /\ PutCount(events, n) = 1
          /\ heap[m] = Freed
          /\ Live(heap, n) /\ heap[n].ref_count = 1 /\ held[n] = 1

\* fjson_object_object_del removed an entry whose value the caller holds a
\* reference to: the value is live with count 1
C28_WitnessDel ==
    /\ ret.op = "object_del" /\ ret.val = 0
    /\ \E n \in Handles \ {Root} :
          /\ PutCount(events, n) = 1
          /\ Live(heap, n) /\ heap[n].ref_count = 1 /\ held[n] = 1
          /\ HoldsTimes(heap, Root, n) = 0

----------------------------------------------------------------------------
(* The two serializers *)

\* every Value of the tree of jso has the serializer its constructor gave
\* its kind
AllDefault(h, jso) ==
    \A a \in ReachSet(h, {jso}, MaxObj) :
        h[a].to_json_string = DefaultSerializer(h[a].o_type)

\* what fjson_object_to_json_string_ext returns for the Value and the flags
\* of the last call
PrintBufferText == fjson_object_to_json_string_ext(Cur, ret.jso, ret.arg).rv

\* C29: for every tree of Values without a custom serializer and for every
\* flag set, the bytes fjson_object_dump_ext hands to its callback, in order,
\* are the string fjson_object_to_json_string_ext returns for the same Value
\* and flags
C29_PathsAgree ==
    ret.op = "dump_ext" /\ AllDefault(heap, ret.jso) =>
        Chunks(events) = PrintBufferText

\* the Values the two paths format differently: a finite double without a
\* fractional part, and a string with a byte that is escaped as \u00XY or is
\* above 127
Differs(h, a) ==
    \/ /\ h[a].o_type = "double"
       /\ h[a].c_double.cls = "finite"
       /\ h[a].c_double.integral
    \/ /\ h[a].o_type = "string"
       /\ \E i \in 1..h[a].c_string.len :
             \/ h[a].c_string.data[i] >= 128
             \/ h[a].c_string.data[i] < 32
                  /\ h[a].c_string.data[i] \notin {8, 9, 10, 12, 13}

\* the two paths produce the same bytes for every tree without a custom
\* serializer that holds no such Value
C29_AgreeButThese ==
    ret.op = "dump_ext" /\ AllDefault(heap, ret.jso) =>
        IF \E a \in ReachSet(heap, {ret.jso}, MaxObj) : Differs(heap, a)
        THEN TRUE
        ELSE Chunks(events) = PrintBufferText

----------------------------------------------------------------------------
(* The value an add leaves in the entry *)

\* the last call added to an object
AddedTo == ret.op \in {"object_add", "object_add_ex"}

\* the values the object jso of heap h holds under key
StoredUnder(h, jso, key) ==
    {h[jso].c_object[i].v : i \in {j \in 1..Len(h[jso].c_object) :
                                      h[jso].c_object[j].k = key}}

\* C30: after fjson_object_object_add or fjson_object_object_add_ex returned,
\* the value stored under the key is a live Value with a count of at least 1,
\* whatever the key and the value passed, also when the value passed is the
\* one the entry held
C30_StoredLive ==
    AddedTo =>
        \A v \in StoredUnder(heap, ret.jso, ret.arg) \ {NULL} :
            Live(heap, v) /\ heap[v].ref_count >= 1

\* the value stored is live with a count of at least 1 after every add but
\* the one that passes the value the entry holds without a reference of the
\* caller's own: that one leaves the entry pointing to the Value it freed
C30_LiveUnlessBorrowed ==
    [][AddedTo' =>
          LET v == ret'.val
              borrowed == /\ v # NULL
                          /\ v \in StoredUnder(heap, ret'.jso, ret'.arg)
                          /\ held[v] = 0
          IN /\ StoredUnder(heap', ret'.jso, ret'.arg) = {v}
             /\ v # NULL =>
                   IF borrowed THEN heap'[v] = Freed
                   ELSE Live(heap', v) /\ heap'[v].ref_count >= 1
      ]_vars

====
